---- MODULE Spec2Model ----
(***************************************************************************)
(* The EOS actor runtime: the System of eos/src/system.rs (actor table,    *)
(* spawn queue, pause flag), its tick, and the control commands served by  *)
(* the loop of eos/src/main.rs, and the 9P filesystem overlay of            *)
(* file_overlay.rs over the same System.  Every command, every tick and    *)
(* every filesystem request that touches the System runs with the System   *)
(* lock held, so each one is a single atomic action; the tick is also      *)
(* given step by step, with the lock as a variable, and the requests are   *)
(* given await by await, with every RwLock they take as a variable.        *)
(***************************************************************************)
EXTENDS Integers, Sequences, FiniteSets, TLC

VARIABLES
    actors,       \* System.actors: a function from the live ids to Actor records
    spawn_queue,  \* System.spawn_queue: a sequence of Props
    paused,       \* System.paused
    last,         \* the last command served and the Response it was given
    log,          \* what the last execution of System::tick did
    SYSTEM,       \* the static SYSTEM of common.rs, which the send host function locks
    config,       \* Config.tick, the period of the timer task in milliseconds
    fids,         \* the fids of the 9P session: a function from fid numbers to MyFId records
    out,          \* the data carried by the last response (List, rread)
    spawned,      \* per id: whether a Spawn answered Spawned{id} since the last Kill naming it
    sys_lock,     \* the RwLock of the served System: the task that holds the write guard, or "free"
    ticks,        \* per task that ticks: where its call of System::tick is, and the locals of the call
    locks,        \* per RwLock (the System's, and path, is_dir, write_buffer of a MyFId): the guards held and the tasks waiting, first come first
    flight        \* per task that takes locks: the request it is serving and the await it has reached

vars == <<actors, spawn_queue, paused, last, log, SYSTEM, config, fids, out, spawned,
          sys_lock, ticks, locks, flight>>

---------------------------------------------------------------------------
\* Bounds of the model.

\* Send commands are accepted while fewer messages than this are pending in
\* the mailboxes and send queues of the System.
MaxMessages == 2
\* Longest send_queue of an initial System value of SpecSys.
MaxQueue == 2
\* Longest spawn_queue of an initial System value of SpecSys.
MaxSpawn == 2
\* Longest write buffer of a fid, in units.
MaxBuffer == 4
\* Messages are sent to a counting actor while it has counted and holds fewer
\* messages than this.
MaxCount == 3

---------------------------------------------------------------------------
\* Values.

Ids == {"a", "b"}

\* common.rs: DEFAULT_TICK.
DEFAULT_TICK == 2000

\* Option::None, for Message.from and Props.id.
None == "none"

\* JSON values: the object {"n": k} and the number k.
Obj(k) == [t |-> "obj", n |-> k]
Num(k) == [t |-> "num", n |-> k]

\* Object::new(): the object without fields, read as n = 0.
EmptyObject == Obj(0)

\* The payloads of the messages sent: an object and a scalar.
Payloads == {Obj(1), Num(1)}

\* The scripts given to the runtime:
\*   "echo"   pub fn handle(state, msg) { (state, msg) }
\*   "latch"  pub fn handle(state, msg) { state.n = msg.n; state }
\*   "broken" a source text that does not compile
\*   "sender" pub fn handle(state, msg) { send("b", msg); state }
\*   "counter" pub fn init() { #{ n: 0 } } pub fn handle(s, m) { s.n = s.n + 1; s }
LiveScripts == {"echo", "latch"}
Scripts == LiveScripts \cup {"broken"}
HostScripts == {"echo", "sender"}

Message(f, t, p) == [from |-> f, to |-> t, payload |-> p]

Props(s, i) == [script |-> s, id |-> i]

---------------------------------------------------------------------------
\* The script VM host.

\* make_vm: rune::prepare(...).build() fails on a source that does not compile.
make_vm(script) == script # "broken"

\* init: the scripts but "counter" define no init, so the state is
\* empty_state(); the init of "counter" returns #{ n: 0 }, which is the same
\* value here; a script that does not compile fails in make_vm.
init(script) ==
    IF make_vm(script)
    THEN [ok |-> TRUE, state |-> EmptyObject]
    ELSE [ok |-> FALSE, state |-> EmptyObject]

\* vm.call(["handle"], (state, payload)): the value the script returns, or a
\* runtime error (the field access state.n / msg.n on a value that is no object),
\* and the calls of the send host function it made, in order.
call_handle(script, state, payload) ==
    IF script = "echo"
    THEN [tag |-> "pair", fst |-> state, snd |-> payload, sends |-> <<>>]
    ELSE IF script = "sender"
    THEN [tag |-> "value", fst |-> state, snd |-> EmptyObject,
          sends |-> <<[to |-> "b", value |-> payload]>>]
    ELSE IF script = "counter"
    THEN IF state.t = "obj"
         THEN [tag |-> "value", fst |-> Obj(state.n + 1), snd |-> EmptyObject, sends |-> <<>>]
         ELSE [tag |-> "error", fst |-> EmptyObject, snd |-> EmptyObject, sends |-> <<>>]
    ELSE IF state.t = "obj" /\ payload.t = "obj"
         THEN [tag |-> "value", fst |-> Obj(payload.n), snd |-> EmptyObject, sends |-> <<>>]
         ELSE [tag |-> "error", fst |-> EmptyObject, snd |-> EmptyObject, sends |-> <<>>]

\* The send host function that make_vm installs for the actor `id`: it locks
\* the static SYSTEM and pushes the message on the send_queue of the entry
\* `id` of that System's table, if there is one.
send(system, id, to, value) ==
    IF id \in DOMAIN system.actors
    THEN [system EXCEPT !.actors[id].send_queue = Append(@, Message(id, to, value))]
    ELSE system

\* Actor::run that stores the payload as the state before it calls the VM.
run_clobber(actor, message) ==
    IF ~make_vm(actor.script)
    THEN [actor |-> [actor EXCEPT !.state = message.payload],
          err |-> "compile", response |-> <<>>, sends |-> <<>>]
    ELSE LET result == call_handle(actor.script, actor.state, message.payload) IN
         IF result.tag = "error"
         THEN [actor |-> [actor EXCEPT !.state = message.payload],
               err |-> "runtime", response |-> <<>>, sends |-> result.sends]
         ELSE IF result.tag = "pair" /\ result.fst.t = "obj" /\ result.snd.t = "obj"
         THEN [actor |-> [actor EXCEPT !.state = result.fst],
               err |-> "",
               response |-> IF message.from # None
                            THEN <<Message(message.to, message.from, result.snd)>>
                            ELSE <<>>,
               sends |-> result.sends]
         ELSE IF result.tag = "value" /\ result.fst.t = "obj"
         THEN [actor |-> [actor EXCEPT !.state = result.fst],
               err |-> "", response |-> <<>>, sends |-> result.sends]
         ELSE [actor |-> actor, err |-> "", response |-> <<>>, sends |-> result.sends]

\* Actor::run: the actor after the call, whether run returned Err, the
\* Option<Message> it returned as a sequence of length 0 or 1, and the calls
\* of send that the handler made.
run(actor, message) ==
    IF ~make_vm(actor.script)
    THEN [actor |-> actor, err |-> "compile", response |-> <<>>, sends |-> <<>>]
    ELSE LET result == call_handle(actor.script, actor.state, message.payload) IN
         IF result.tag = "error"
         THEN [actor |-> actor, err |-> "runtime", response |-> <<>>,
               sends |-> result.sends]
         ELSE IF result.tag = "pair" /\ result.fst.t = "obj" /\ result.snd.t = "obj"
         THEN [actor |-> [actor EXCEPT !.state = result.fst],
               err |-> "",
               response |-> IF message.from # None
                            THEN <<Message(message.to, message.from, result.snd)>>
                            ELSE <<>>,
               sends |-> result.sends]
         ELSE IF result.tag = "value" /\ result.fst.t = "obj"
         THEN [actor |-> [actor EXCEPT !.state = result.fst],
               err |-> "", response |-> <<>>, sends |-> result.sends]
         ELSE [actor |-> actor, err |-> "", response |-> <<>>, sends |-> result.sends]

\* Actor::new: init, then the record with empty queues and paused = false.
ActorNew(id, script) ==
    [id |-> id, mailbox |-> <<>>, send_queue |-> <<>>, script |-> script,
     state |-> init(script).state, paused |-> FALSE]

---------------------------------------------------------------------------
\* The System.

\* System::kill_actor: remove the entry if it is there.
kill_actor(acts, id) == [k \in DOMAIN acts \ {id} |-> acts[k]]

\* System::spawn_actor with the id already chosen (the requested one, or the
\* nanoid): Actor::new runs init first, then the table is consulted;
\* `evaluated` tells whether Actor::new, and so init(script), was executed.
spawn_actor(acts, script, id) ==
    IF ~init(script).ok
    THEN [err |-> "BuildError", actors |-> acts, evaluated |-> TRUE]
    ELSE IF id \in DOMAIN acts
    THEN [err |-> "IdAlreadyExists", actors |-> acts, evaluated |-> TRUE]
    ELSE [err |-> "", evaluated |-> TRUE,
          actors |-> [k \in DOMAIN acts \cup {id} |->
                         IF k = id THEN ActorNew(id, script) ELSE acts[k]]]

\* The first loop of tick: spawn_queue.pop() takes the last request; an Err of
\* spawn_actor leaves the loop and the tick through `?`.
RECURSIVE drain_spawn_queue(_, _)
drain_spawn_queue(acts, queue) ==
    IF queue = <<>>
    THEN [err |-> "", actors |-> acts, spawn_queue |-> queue]
    ELSE LET request == queue[Len(queue)]
             rest == SubSeq(queue, 1, Len(queue) - 1)
             r == spawn_actor(acts, request.script, request.id)
         IN IF r.err # ""
            THEN [err |-> r.err, actors |-> acts, spawn_queue |-> rest]
            ELSE drain_spawn_queue(r.actors, rest)

\* The accumulator of the second loop: the table, the actor_messages vector,
\* the handler invocations made so far and the Err that `?` returned, if any.
LoopStart(acts) == [actors |-> acts, actor_messages |-> <<>>, invoked |-> <<>>, err |-> ""]

\* pop_send_queue that moves the whole send_queue to actor_messages.
pop_send_queue_all(acc, k) ==
    [acc EXCEPT !.actors[k].send_queue = <<>>,
                !.actor_messages = @ \o acc.actors[k].send_queue]

\* send_queue.pop_front() of the actor under key k, pushed on actor_messages.
pop_send_queue(acc, k) ==
    IF acc.actors[k].send_queue = <<>>
    THEN acc
    ELSE [acc EXCEPT !.actors[k].send_queue = Tail(@),
                     !.actor_messages = Append(@, Head(acc.actors[k].send_queue))]

\* handle_mailbox_head that pushes the response on the recipient's mailbox at
\* once in the place of actor_messages.
handle_mailbox_head_eager(acc, k) ==
    IF acc.actors[k].mailbox = <<>>
    THEN acc
    ELSE LET message == Head(acc.actors[k].mailbox)
             popped == [acc.actors[k] EXCEPT !.mailbox = Tail(@)]
             r == run(popped, message)
             after == [acc.actors EXCEPT ![k] = r.actor]
         IN [actors |-> IF r.response # <<>> /\ r.response[1].to \in DOMAIN after
                        THEN [after EXCEPT ![r.response[1].to].mailbox =
                                               Append(@, r.response[1])]
                        ELSE after,
             actor_messages |-> acc.actor_messages,
             invoked |-> Append(acc.invoked,
                                [key |-> k, id |-> popped.id, message |-> message,
                                 state |-> popped.state, err |-> r.err,
                                 sends |-> r.sends]),
             err |-> r.err]

\* handle_mailbox_head with pop_back in the place of pop_front.
handle_mailbox_head_back(acc, k) ==
    IF acc.actors[k].mailbox = <<>>
    THEN acc
    ELSE LET box == acc.actors[k].mailbox
             message == box[Len(box)]
             popped == [acc.actors[k] EXCEPT !.mailbox = SubSeq(box, 1, Len(box) - 1)]
             r == run(popped, message)
         IN [actors |-> [acc.actors EXCEPT ![k] = r.actor],
             actor_messages |-> acc.actor_messages \o r.response,
             invoked |-> Append(acc.invoked,
                                [key |-> k, id |-> popped.id, message |-> message,
                                 state |-> popped.state, err |-> r.err,
                                 sends |-> r.sends]),
             err |-> r.err]

\* mailbox.pop_front() of the actor under key k and Actor::run on the message;
\* a response is pushed on actor_messages, an Err is kept for `?`.
handle_mailbox_head(acc, k) ==
    IF acc.actors[k].mailbox = <<>>
    THEN acc
    ELSE LET message == Head(acc.actors[k].mailbox)
             popped == [acc.actors[k] EXCEPT !.mailbox = Tail(@)]
             r == run(popped, message)
         IN [actors |-> [acc.actors EXCEPT ![k] = r.actor],
             actor_messages |-> acc.actor_messages \o r.response,
             invoked |-> Append(acc.invoked,
                                [key |-> k, id |-> popped.id, message |-> message,
                                 state |-> popped.state, err |-> r.err,
                                 sends |-> r.sends]),
             err |-> r.err]

\* visit_actor with `while let` in the place of `if let`: the mailbox is drained.
RECURSIVE drain_mailbox(_, _)
drain_mailbox(acc, k) ==
    IF acc.err # "" \/ acc.actors[k].mailbox = <<>>
    THEN acc
    ELSE drain_mailbox(handle_mailbox_head(acc, k), k)

visit_actor_while(acc, k) ==
    IF acc.actors[k].paused
    THEN acc
    ELSE drain_mailbox(pop_send_queue(acc, k), k)

\* visit_actor without the `if actor.paused { continue; }`.
visit_actor_paused(acc, k) == handle_mailbox_head(pop_send_queue(acc, k), k)

\* The body of `for actor in self.actors.values_mut()`.
visit_actor(acc, k) ==
    IF acc.actors[k].paused
    THEN acc
    ELSE handle_mailbox_head(pop_send_queue(acc, k), k)

\* The second loop over the table in the iteration order `order`.
RECURSIVE actor_loop(_, _)
actor_loop(acc, order) ==
    IF order = <<>> \/ acc.err # ""
    THEN acc
    ELSE actor_loop(visit_actor(acc, Head(order)), Tail(order))

\* deliver with push_front in the place of push_back.
deliver_front(acts, msg) ==
    IF msg.to \in DOMAIN acts
    THEN [acts EXCEPT ![msg.to].mailbox = <<msg>> \o @]
    ELSE acts

\* One iteration of the third loop: push_back on the recipient's mailbox when
\* actors.get_mut(&msg.to) finds it.
deliver(acts, msg) ==
    IF msg.to \in DOMAIN acts
    THEN [acts EXCEPT ![msg.to].mailbox = Append(@, msg)]
    ELSE acts

\* The third loop: `for msg in actor_messages`.
RECURSIVE route(_, _)
route(acts, msgs) ==
    IF msgs = <<>> THEN acts ELSE route(deliver(acts, Head(msgs)), Tail(msgs))

\* The iteration orders a HashMap of the keys S can have.
Orders(S) ==
    {o \in [1..Cardinality(S) -> S] : \A i, j \in 1..Cardinality(S) : o[i] = o[j] => i = j}

NoLog == [ran |-> FALSE, err |-> "", invoked |-> <<>>, routed |-> <<>>]

\* System::tick, after the spawn loop, with the table iterated in `order`.
tick_actors(acts, order) ==
    LET acc == actor_loop(LoopStart(acts), order) IN
    IF acc.err # ""
    THEN [actors |-> acc.actors,
          log |-> [ran |-> TRUE, err |-> acc.err, invoked |-> acc.invoked, routed |-> <<>>]]
    ELSE [actors |-> route(acc.actors, acc.actor_messages),
          log |-> [ran |-> TRUE, err |-> "", invoked |-> acc.invoked,
                   routed |-> acc.actor_messages]]

\* The effect on the static SYSTEM of the send calls made by the handlers
\* that a tick invoked, in the order of the invocations.
RECURSIVE handler_sends(_, _, _)
handler_sends(system, id, sends) ==
    IF sends = <<>>
    THEN system
    ELSE handler_sends(send(system, id, Head(sends).to, Head(sends).value), id, Tail(sends))

RECURSIVE host_sends(_, _)
host_sends(system, invoked) ==
    IF invoked = <<>>
    THEN system
    ELSE host_sends(handler_sends(system, Head(invoked).id, Head(invoked).sends),
                    Tail(invoked))

\* The spawn loop, the actor loop and the routing loop of System::tick.
tick_loops ==
    LET d == drain_spawn_queue(actors, spawn_queue) IN
         IF d.err # ""
         THEN /\ actors' = d.actors
              /\ spawn_queue' = d.spawn_queue
              /\ log' = [ran |-> TRUE, err |-> d.err, invoked |-> <<>>, routed |-> <<>>]
              /\ UNCHANGED <<paused, SYSTEM>>
         ELSE \E order \in Orders(DOMAIN d.actors) :
                 LET t == tick_actors(d.actors, order) IN
                 /\ actors' = t.actors
                 /\ spawn_queue' = <<>>
                 /\ log' = t.log
                 /\ SYSTEM' = host_sends(SYSTEM, t.log.invoked)
                 /\ UNCHANGED paused

\* System::tick without the `if self.paused { return Ok(()); }`.
tick_paused == tick_loops

\* The tasks that call System::tick: the command loop (Command::Tick) and
\* the timer task.  A call that is not running is idle.
TickTasks == {"rpc", "timer"}
IdleTick == [pc |-> "idle", order |-> <<>>, actor_messages |-> <<>>, invoked |-> <<>>]

\* System::tick as a step of the System: Ok(()) at once when paused, else the
\* three loops.
tick ==
    IF paused
    THEN /\ UNCHANGED <<actors, spawn_queue, paused, SYSTEM>>
         /\ log' = NoLog
    ELSE tick_loops

---------------------------------------------------------------------------
\* The control commands of the server loop (eos/src/main.rs) and the timer.

\* A served command: its name, the Response and, for a Failed response, the
\* error behind it.
Served(op, resp, err) == [op |-> op, resp |-> resp, err |-> err]

\* A response that carries no data.
NoOut == [actors |-> {}, data |-> <<>>, wqids |-> <<>>, count |-> 0, entries |-> <<>>,
          qid |-> ""]

\* A command of the control loop that locks the System (sys.write().await or
\* sys.read().await): it waits while a tick holds the lock, and it touches
\* neither the static SYSTEM, nor the Config, nor the fids of the filesystem
\* session.
Control ==
    /\ sys_lock = "free"
    /\ UNCHANGED <<SYSTEM, config, fids, sys_lock, ticks, locks, flight>>

\* The ids of a list.
Range(seq) == {seq[i] : i \in DOMAIN seq}

\* Command::Spawn: id is the requested id or the nanoid drawn for Props.id = None.
Spawn(script, id) ==
    LET r == spawn_actor(actors, script, id) IN
    /\ actors' = r.actors
    /\ last' = Served("spawn", IF r.err = "" THEN "Spawned" ELSE "Failed", r.err)
    /\ spawned' = IF r.err = "" THEN [spawned EXCEPT ![id] = "spawned"] ELSE spawned
    /\ log' = NoLog
    /\ out' = NoOut
    /\ Control
    /\ UNCHANGED <<spawn_queue, paused>>

\* kill_all that stops after the first id of the list.
kill_first(acts, ids) == IF ids = <<>> THEN acts ELSE kill_actor(acts, Head(ids))

\* Command::Kill: kill_actor for each id of the list.
RECURSIVE kill_all(_, _)
kill_all(acts, ids) ==
    IF ids = <<>> THEN acts ELSE kill_all(kill_actor(acts, Head(ids)), Tail(ids))

Kill(ids) ==
    /\ actors' = kill_all(actors, ids)
    /\ last' = Served("kill", "Done", "")
    /\ spawned' = [i \in Ids |-> IF i \in Range(ids) THEN "no" ELSE spawned[i]]
    /\ log' = NoLog
    /\ out' = NoOut
    /\ Control
    /\ UNCHANGED <<spawn_queue, paused>>

\* pause_effect that inverts the flag it finds.
pause_effect_toggle(acts, system_paused, id, flag) ==
    IF id # None /\ id \in DOMAIN acts
    THEN [actors |-> [acts EXCEPT ![id].paused = ~@], paused |-> system_paused]
    ELSE [actors |-> acts, paused |-> ~system_paused]

\* The branches of Command::Pause and Command::Unpause: the actor's flag when
\* the id names an actor, the system-wide flag in every other case.
pause_effect(acts, system_paused, id, flag) ==
    IF id # None /\ id \in DOMAIN acts
    THEN [actors |-> [acts EXCEPT ![id].paused = flag], paused |-> system_paused]
    ELSE [actors |-> acts, paused |-> flag]

set_paused(id, flag) ==
    /\ actors' = pause_effect(actors, paused, id, flag).actors
    /\ paused' = pause_effect(actors, paused, id, flag).paused

Pause(id) ==
    /\ set_paused(id, TRUE)
    /\ last' = Served("pause", "Done", "")
    /\ log' = NoLog
    /\ out' = NoOut
    /\ Control
    /\ UNCHANGED <<spawn_queue, spawned>>

Unpause(id) ==
    /\ set_paused(id, FALSE)
    /\ last' = Served("unpause", "Done", "")
    /\ log' = NoLog
    /\ out' = NoOut
    /\ Control
    /\ UNCHANGED <<spawn_queue, spawned>>

\* The number of messages pending in the mailboxes and send queues of a table.
RECURSIVE Pending(_)
Pending(acts) ==
    IF DOMAIN acts = {}
    THEN 0
    ELSE LET k == CHOOSE x \in DOMAIN acts : TRUE IN
         Len(acts[k].mailbox) + Len(acts[k].send_queue) + Pending(kill_actor(acts, k))

\* Command::Send: push_back on the mailbox of msg.to when it is in the table.
Send(msg) ==
    /\ Pending(actors) < MaxMessages
    /\ actors' = deliver(actors, msg)
    /\ last' = Served("send", "Done", "")
    /\ log' = NoLog
    /\ out' = NoOut
    /\ Control
    /\ UNCHANGED <<spawn_queue, paused, spawned>>

\* Command::Tick: sys.tick() under the write lock, Ok answered Done and Err Failed.
TickNow ==
    /\ tick
    /\ last' = Served("tick", IF log'.err = "" THEN "Done" ELSE "Failed", log'.err)
    /\ out' = NoOut
    /\ sys_lock = "free"
    /\ UNCHANGED <<config, fids, spawned, sys_lock, ticks, locks, flight>>

\* The timer task: sys.tick() under the write lock, an Err is logged.
TimerTick ==
    /\ tick
    /\ last' = Served("timer", "", log'.err)
    /\ out' = NoOut
    /\ sys_lock = "free"
    /\ UNCHANGED <<config, fids, spawned, sys_lock, ticks, locks, flight>>

\* The same call of System::tick, step by step.  The task waits for the write
\* lock of the System and holds it until tick has returned.

\* sys.write().await that does not wait for the lock to be free.
tick_lock_unguarded(t) ==
    /\ ticks[t].pc = "idle"
    /\ sys_lock' = t
    /\ ticks' = [ticks EXCEPT ![t].pc = "spawn"]
    /\ UNCHANGED <<actors, spawn_queue, paused, last, log, SYSTEM, config, fids, out, spawned,
                 locks, flight>>

\* sys.write().await of Command::Tick and of the timer task.
tick_lock(t) ==
    /\ ticks[t].pc = "idle"
    /\ sys_lock = "free"
    /\ sys_lock' = t
    /\ ticks' = [ticks EXCEPT ![t].pc = "spawn"]
    /\ UNCHANGED <<actors, spawn_queue, paused, last, log, SYSTEM, config, fids, out, spawned,
                 locks, flight>>

\* The return of tick to its caller: the guard is dropped, Command::Tick
\* answers Done or Failed and the timer task logs an Err.
tick_return(t, l) ==
    /\ log' = l
    /\ last' = IF t = "rpc"
               THEN Served("tick", IF l.err = "" THEN "Done" ELSE "Failed", l.err)
               ELSE Served("timer", "", l.err)
    /\ out' = NoOut
    /\ sys_lock' = "free"
    /\ ticks' = [ticks EXCEPT ![t] = IdleTick]

\* The start of tick: Ok(()) at once when paused, else the spawn loop, after
\* which the iteration over the table begins in some order.
tick_spawn_loop(t) ==
    /\ ticks[t].pc = "spawn"
    /\ IF paused
       THEN /\ tick_return(t, NoLog)
            /\ UNCHANGED <<actors, spawn_queue>>
       ELSE LET d == drain_spawn_queue(actors, spawn_queue) IN
            /\ actors' = d.actors
            /\ IF d.err # ""
               THEN /\ spawn_queue' = d.spawn_queue
                    /\ tick_return(t, [ran |-> TRUE, err |-> d.err,
                                       invoked |-> <<>>, routed |-> <<>>])
               ELSE /\ spawn_queue' = <<>>
                    /\ \E order \in Orders(DOMAIN d.actors) :
                          ticks' = [ticks EXCEPT ![t].pc = "loop", ![t].order = order]
                    /\ UNCHANGED <<last, log, out, sys_lock>>
    /\ UNCHANGED <<paused, SYSTEM, config, fids, spawned, locks, flight>>

\* One iteration of the loop over the table: the body for the next actor; an
\* Err of Actor::run returns from tick through `?`.
tick_visit(t) ==
    /\ ticks[t].pc = "loop"
    /\ ticks[t].order # <<>>
    /\ Head(ticks[t].order) \in DOMAIN actors
    /\ LET f == ticks[t]
           acc == visit_actor([actors |-> actors, actor_messages |-> f.actor_messages,
                               invoked |-> f.invoked, err |-> ""],
                              Head(f.order))
       IN /\ actors' = acc.actors
          /\ SYSTEM' = host_sends(SYSTEM, SubSeq(acc.invoked, Len(f.invoked) + 1,
                                                 Len(acc.invoked)))
          /\ IF acc.err # ""
             THEN tick_return(t, [ran |-> TRUE, err |-> acc.err,
                                  invoked |-> acc.invoked, routed |-> <<>>])
             ELSE /\ ticks' = [ticks EXCEPT ![t].order = Tail(f.order),
                                            ![t].actor_messages = acc.actor_messages,
                                            ![t].invoked = acc.invoked]
                  /\ UNCHANGED <<last, log, out, sys_lock>>
    /\ UNCHANGED <<spawn_queue, paused, config, fids, spawned, locks, flight>>

\* The routing loop, `self.spawn_queue = spawn_requests` and Ok(()).
tick_route(t) ==
    /\ ticks[t].pc = "loop"
    /\ ticks[t].order = <<>>
    /\ actors' = route(actors, ticks[t].actor_messages)
    /\ spawn_queue' = <<>>
    /\ tick_return(t, [ran |-> TRUE, err |-> "", invoked |-> ticks[t].invoked,
                       routed |-> ticks[t].actor_messages])
    /\ UNCHANGED <<paused, SYSTEM, config, fids, spawned, locks, flight>>

\* Rename without the contains_key test: the record under old replaces the
\* one under new.
rename_overwrite(old, new) ==
    /\ actors' = IF old \in DOMAIN actors
                  THEN [k \in (DOMAIN actors \ {old}) \cup {new} |->
                           IF k = new THEN actors[old] ELSE actors[k]]
                  ELSE actors
    /\ last' = Served("rename", "Done", "")
    /\ spawned' = IF old \in DOMAIN actors' \/ spawned[old] = "no"
                  THEN spawned
                  ELSE [spawned EXCEPT ![old] = "renamed"]
    /\ log' = NoLog
    /\ out' = NoOut
    /\ Control
    /\ UNCHANGED <<spawn_queue, paused>>

\* Command::Rename: move the record from key old to key new.
Rename(old, new) ==
    /\ IF new \in DOMAIN actors
       THEN /\ UNCHANGED actors
            /\ last' = Served("rename", "Failed", "exists")
       ELSE /\ actors' = IF old \in DOMAIN actors
                         THEN [k \in (DOMAIN actors \ {old}) \cup {new} |->
                                  IF k = new THEN actors[old] ELSE actors[k]]
                         ELSE actors
            /\ last' = Served("rename", "Done", "")
    /\ spawned' = IF old \in DOMAIN actors' \/ spawned[old] = "no"
                  THEN spawned
                  ELSE [spawned EXCEPT ![old] = "renamed"]
    /\ log' = NoLog
    /\ out' = NoOut
    /\ Control
    /\ UNCHANGED <<spawn_queue, paused>>

\* list_keys that leaves out the actors that are paused.
list_keys_running(acts) == {k \in DOMAIN acts : ~acts[k].paused}

\* The keys of the table, as Command::List collects them.
list_keys(acts) == DOMAIN acts

\* Command::List: the keys of the table, read under the read lock.
List ==
    /\ out' = [NoOut EXCEPT !.actors = list_keys(actors)]
    /\ last' = Served("list", "Actors", "")
    /\ log' = NoLog
    /\ Control
    /\ UNCHANGED <<actors, spawn_queue, paused, spawned>>

\* Command::SetTick: the Config takes the value of the request.
SetTick(ms) ==
    /\ config' = ms
    /\ last' = Served("set_tick", "Done", "")
    /\ log' = NoLog
    /\ out' = NoOut
    /\ ticks["rpc"].pc = "idle"
    /\ UNCHANGED <<actors, spawn_queue, paused, SYSTEM, fids, spawned, sys_lock, ticks, locks, flight>>

\* Command::ResetTick: the Config takes DEFAULT_TICK.
ResetTick ==
    /\ config' = DEFAULT_TICK
    /\ last' = Served("reset_tick", "Done", "")
    /\ log' = NoLog
    /\ out' = NoOut
    /\ ticks["rpc"].pc = "idle"
    /\ UNCHANGED <<actors, spawn_queue, paused, SYSTEM, fids, spawned, sys_lock, ticks, locks, flight>>

---------------------------------------------------------------------------
\* The filesystem overlay (file_overlay.rs): byte strings and their parsing.

\* A byte string is a sequence of lexical units.  A unit is a record with
\* the text it stands for; the unit "msg" stands for the JSON text of the
\* Message object in its field m.
NoMessage == Message(None, None, EmptyObject)
U(c) == [c |-> c, m |-> NoMessage]
MsgText(msg) == [c |-> "msg", m |-> msg]

\* The zero byte with which rwrite fills a gap.
Nul == U("nul")

DigitUnits == <<"0", "1", "2", "3", "4", "5", "6", "7", "8", "9">>
is_digit(u) == \E d \in DOMAIN DigitUnits : u.c = DigitUnits[d]
digit_value(u) == (CHOOSE d \in DOMAIN DigitUnits : u.c = DigitUnits[d]) - 1

\* std::str::from_utf8: the unit "xff" is a byte that is not UTF-8.
from_utf8(data) == \A i \in DOMAIN data : data[i].c # "xff"

\* The position of the first unit at or after i that is not whitespace.
RECURSIVE skip_ws(_, _)
skip_ws(text, i) ==
    IF i <= Len(text) /\ text[i].c = " " THEN skip_ws(text, i + 1) ELSE i

\* The digits of a JSON number starting at i: 0, or a digit 1..9 followed by
\* digits.  The result is the value and the position after the number.
RECURSIVE parse_digits(_, _, _)
parse_digits(text, i, acc) ==
    IF i <= Len(text) /\ is_digit(text[i])
    THEN parse_digits(text, i + 1, acc * 10 + digit_value(text[i]))
    ELSE [value |-> acc, next |-> i]

parse_number(text, i) ==
    IF i > Len(text) \/ ~is_digit(text[i])
    THEN [ok |-> FALSE, value |-> 0, next |-> i]
    ELSE IF text[i].c = "0"
    THEN [ok |-> TRUE, value |-> 0, next |-> i + 1]
    ELSE LET d == parse_digits(text, i, 0) IN
         [ok |-> TRUE, value |-> d.value, next |-> d.next]

\* A JSON value starting at i (after whitespace): a number, the object {} or
\* the object {"n": number}; the unit "n:" is the member name with its colon.
parse_value(text, i) ==
    LET j == skip_ws(text, i) IN
    IF j > Len(text)
    THEN [ok |-> FALSE, value |-> EmptyObject, next |-> j]
    ELSE IF is_digit(text[j])
    THEN LET n == parse_number(text, j) IN
         [ok |-> n.ok, value |-> Num(n.value), next |-> n.next]
    ELSE IF text[j].c = "{"
    THEN LET k == skip_ws(text, j + 1) IN
         IF k <= Len(text) /\ text[k].c = "}"
         THEN [ok |-> TRUE, value |-> EmptyObject, next |-> k + 1]
         ELSE IF k <= Len(text) /\ text[k].c = "n:"
         THEN LET n == parse_number(text, skip_ws(text, k + 1))
                  e == skip_ws(text, n.next)
              IN IF n.ok /\ e <= Len(text) /\ text[e].c = "}"
                 THEN [ok |-> TRUE, value |-> Obj(n.value), next |-> e + 1]
                 ELSE [ok |-> FALSE, value |-> EmptyObject, next |-> e]
         ELSE [ok |-> FALSE, value |-> EmptyObject, next |-> k]
    ELSE [ok |-> FALSE, value |-> EmptyObject, next |-> j]

\* serde_json::from_str::<Value>: one value, then only whitespace.
from_str_value(text) ==
    LET v == parse_value(text, 1) IN
    IF v.ok /\ skip_ws(text, v.next) > Len(text)
    THEN [ok |-> TRUE, value |-> v.value]
    ELSE [ok |-> FALSE, value |-> EmptyObject]

\* The elements of a JSON array of Message objects starting at i, after the
\* opening bracket and the first element: `, element` repeated, then `]`.
RECURSIVE parse_elements(_, _, _)
parse_elements(text, i, acc) ==
    LET j == skip_ws(text, i) IN
    IF j <= Len(text) /\ text[j].c = "]"
    THEN [ok |-> TRUE, value |-> acc, next |-> j + 1]
    ELSE IF j <= Len(text) /\ text[j].c = ","
    THEN LET k == skip_ws(text, j + 1) IN
         IF k <= Len(text) /\ text[k].c = "msg"
         THEN parse_elements(text, k + 1, Append(acc, text[k].m))
         ELSE [ok |-> FALSE, value |-> <<>>, next |-> k]
    ELSE [ok |-> FALSE, value |-> <<>>, next |-> j]

\* serde_json::from_str::<VecDeque<Message>>: an array of Message objects,
\* then only whitespace.
from_str_messages(text) ==
    LET j == skip_ws(text, 1) IN
    IF j > Len(text) \/ text[j].c # "["
    THEN [ok |-> FALSE, value |-> <<>>]
    ELSE LET k == skip_ws(text, j + 1)
             r == IF k <= Len(text) /\ text[k].c = "]"
                  THEN [ok |-> TRUE, value |-> <<>>, next |-> k + 1]
                  ELSE IF k <= Len(text) /\ text[k].c = "msg"
                  THEN parse_elements(text, k + 1, <<text[k].m>>)
                  ELSE [ok |-> FALSE, value |-> <<>>, next |-> k]
         IN IF r.ok /\ skip_ws(text, r.next) > Len(text)
            THEN [ok |-> TRUE, value |-> r.value]
            ELSE [ok |-> FALSE, value |-> <<>>]

\* str::trim, then str::parse::<bool>.
parse_bool(text) ==
    LET j == skip_ws(text, 1) IN
    IF j <= Len(text) /\ text[j].c \in {"true", "false"} /\ skip_ws(text, j + 1) > Len(text)
    THEN [ok |-> TRUE, value |-> text[j].c = "true"]
    ELSE [ok |-> FALSE, value |-> FALSE]

\* The decimal digits of a natural number.
RECURSIVE digits(_)
digits(n) ==
    IF n < 10 THEN <<U(DigitUnits[n + 1])>>
    ELSE Append(digits(n \div 10), U(DigitUnits[(n % 10) + 1]))

\* serde_json::to_string_pretty of a value: a number as its digits, the empty
\* object as {}, the object {"n": k} on three lines.
to_string_pretty(value) ==
    IF value.t = "num" THEN digits(value.n)
    ELSE IF value = EmptyObject THEN <<U("{"), U("}")>>
    ELSE <<U("{"), U(" "), U("n:"), U(" ")>> \o digits(value.n) \o <<U(" "), U("}")>>

\* format_mailbox: to_string_pretty of the array of Messages.
RECURSIVE pretty_elements(_)
pretty_elements(msgs) ==
    IF msgs = <<>> THEN <<>>
    ELSE IF Len(msgs) = 1 THEN <<U(" "), MsgText(msgs[1]), U(" ")>>
    ELSE <<U(" "), MsgText(Head(msgs)), U(",")>> \o pretty_elements(Tail(msgs))

format_mailbox(actor) == <<U("[")>> \o pretty_elements(actor.mailbox) \o <<U("]")>>

\* format_spawn_queue: to_string_pretty of the array of Props; the unit
\* "props" stands for the text of one Props object.
format_spawn_queue(queue) ==
    <<U("[")>> \o [i \in 1..Len(queue) |-> U("props")] \o <<U("]")>>

\* The script that a source text is: the unit with the name of a script
\* stands for its text, every other text is one that does not compile.
script_of(text) ==
    IF Len(text) = 1 /\ text[1].c \in Scripts \cup HostScripts
    THEN text[1].c
    ELSE "broken"

\* bool::to_string.
bool_to_string(b) == IF b THEN <<U("true")>> ELSE <<U("false")>>

---------------------------------------------------------------------------
\* The filesystem overlay: paths, fids and the requests.

\* A virtual path is the sequence of its names: <<>> is "/".
Root == <<>>
ActorFiles == {"mailbox", "script", "state", "paused"}

\* Option<Vec<u8>>: None is <<>>, Some(b) is <<b>>.
MyFId(path, is_dir, write_buffer) ==
    [path |-> path, is_dir |-> is_dir, write_buffer |-> write_buffer]

\* get_path_info: whether the path exists and whether it is a directory.
get_path_info(acts, path) ==
    IF path = Root \/ path = <<"actors">>
    THEN [exists |-> TRUE, is_dir |-> TRUE]
    ELSE IF path = <<"spawn_queue">>
    THEN [exists |-> TRUE, is_dir |-> FALSE]
    ELSE IF Len(path) >= 2 /\ path[1] = "actors"
    THEN IF path[2] \notin DOMAIN acts
         THEN [exists |-> FALSE, is_dir |-> FALSE]
         ELSE IF Len(path) = 2
         THEN [exists |-> TRUE, is_dir |-> TRUE]
         ELSE [exists |-> path[3] \in ActorFiles, is_dir |-> FALSE]
    ELSE [exists |-> FALSE, is_dir |-> FALSE]

\* path_to_qid: the DefaultHasher (SipHash-1-3 with zero keys) of the path
\* string, a 64-bit value written as 16 hexadecimal digits; the table holds
\* the hash of every path that the requests of the model can name.
path_to_qid(path) ==
    CASE path = Root -> "cf1d3eb93fcb5a7a"
      [] path = <<"actors">> -> "bd4dd4d4b4c3eb6e"
      [] path = <<"spawn_queue">> -> "563f2bd8308d9d3e"
      [] path = <<"actors", "a">> -> "b72796e9ca110c4e"
      [] path = <<"actors", "a", "mailbox">> -> "4f48e22364d57c1a"
      [] path = <<"actors", "a", "script">> -> "ed21891b06c00294"
      [] path = <<"actors", "a", "state">> -> "4bfed20c8f8c67a5"
      [] path = <<"actors", "a", "paused">> -> "d9e1441110bf77b4"
      [] path = <<"actors", "b">> -> "597327b1f57f28d0"
      [] path = <<"actors", "b", "mailbox">> -> "c480268106b5bc69"
      [] path = <<"actors", "b", "script">> -> "2e02f59c9f1c5e71"
      [] path = <<"actors", "b", "state">> -> "d6843f312a05db9b"
      [] path = <<"actors", "b", "paused">> -> "ec9ad22d376ae20f"
      [] path = <<"actors", "a", "state", "actors">> -> "55d1042286cff3c7"
      [] path = <<"actors", "a", "state", "a">> -> "2ae0eee5ed45e98e"
      [] path = <<"actors", "a", "state", "state">> -> "dc40675f11021ed7"
      [] path = <<"actors", "a", "state", "x">> -> "0bda855e139b6956"

\* One name of a walk applied to a path: ".." goes up, any other name down.
walk_name(path, wname) ==
    IF wname = ".."
    THEN IF path = Root THEN Root ELSE SubSeq(path, 1, Len(path) - 1)
    ELSE Append(path, wname)

\* The loop of rwalk: the path, the directory flag and the number of QIDs
\* pushed; the loop breaks at the first name whose path does not exist.
RECURSIVE walk_loop(_, _, _)
walk_loop(acts, w, wnames) ==
    IF wnames = <<>>
    THEN w
    ELSE LET path == walk_name(w.path, Head(wnames))
             info == get_path_info(acts, path)
         IN IF ~info.exists
            THEN [w EXCEPT !.path = path]
            ELSE walk_loop(acts,
                           [path |-> path, is_dir |-> info.is_dir,
                            wqids |-> Append(w.wqids, path_to_qid(path))],
                           Tail(wnames))

\* read_file: the content of the file at a path; empty for every path that
\* is no file of a live actor and is not /spawn_queue.
read_file(acts, queue, path) ==
    IF path = <<"spawn_queue">>
    THEN format_spawn_queue(queue)
    ELSE IF Len(path) >= 3 /\ path[1] = "actors" /\ path[2] \in DOMAIN acts
    THEN LET actor == acts[path[2]] IN
         IF path[3] = "mailbox" THEN format_mailbox(actor)
         ELSE IF path[3] = "script" THEN <<U(actor.script)>>
         ELSE IF path[3] = "state" THEN to_string_pretty(actor.state)
         ELSE IF path[3] = "paused" THEN bool_to_string(actor.paused)
         ELSE <<>>
    ELSE <<>>

\* write_file that parses the state and does not assign it.
write_file_unassigned(acts, path, data) ==
    IF ~from_utf8(data)
    THEN [err |-> "EINVAL", actors |-> acts]
    ELSE IF Len(path) >= 3 /\ path[1] = "actors"
    THEN IF path[2] \notin DOMAIN acts
         THEN [err |-> "ENOENT", actors |-> acts]
         ELSE IF path[3] = "state"
         THEN LET new_state == from_str_value(data) IN
              IF new_state.ok
              THEN [err |-> "", actors |-> acts]
              ELSE [err |-> "EINVAL", actors |-> acts]
         ELSE IF path[3] = "mailbox"
         THEN LET messages == from_str_messages(data) IN
              [err |-> "",
               actors |-> IF messages.ok
                          THEN [acts EXCEPT ![path[2]].mailbox = messages.value]
                          ELSE acts]
         ELSE IF path[3] = "script"
         THEN [err |-> "", actors |-> [acts EXCEPT ![path[2]].script = script_of(data)]]
         ELSE IF path[3] = "paused"
         THEN LET flag == parse_bool(data) IN
              IF flag.ok
              THEN [err |-> "", actors |-> [acts EXCEPT ![path[2]].paused = flag.value]]
              ELSE [err |-> "EINVAL", actors |-> acts]
         ELSE [err |-> "EROFS", actors |-> acts]
    ELSE [err |-> "EROFS", actors |-> acts]

\* write_file that clears the state before it parses the new one.
write_file_partial(acts, path, data) ==
    IF ~from_utf8(data)
    THEN [err |-> "EINVAL", actors |-> acts]
    ELSE IF Len(path) >= 3 /\ path[1] = "actors"
    THEN IF path[2] \notin DOMAIN acts
         THEN [err |-> "ENOENT", actors |-> acts]
         ELSE IF path[3] = "state"
         THEN LET new_state == from_str_value(data) IN
              IF new_state.ok
              THEN [err |-> "", actors |-> [acts EXCEPT ![path[2]].state = new_state.value]]
              ELSE [err |-> "EINVAL",
                    actors |-> [acts EXCEPT ![path[2]].state = EmptyObject]]
         ELSE IF path[3] = "mailbox"
         THEN LET messages == from_str_messages(data) IN
              [err |-> "",
               actors |-> IF messages.ok
                          THEN [acts EXCEPT ![path[2]].mailbox = messages.value]
                          ELSE acts]
         ELSE IF path[3] = "script"
         THEN [err |-> "", actors |-> [acts EXCEPT ![path[2]].script = script_of(data)]]
         ELSE IF path[3] = "paused"
         THEN LET flag == parse_bool(data) IN
              IF flag.ok
              THEN [err |-> "", actors |-> [acts EXCEPT ![path[2]].paused = flag.value]]
              ELSE [err |-> "EINVAL", actors |-> acts]
         ELSE [err |-> "EROFS", actors |-> acts]
    ELSE [err |-> "EROFS", actors |-> acts]

\* write_file: the table after the write and the errno it returned, "" for Ok.
write_file(acts, path, data) ==
    IF ~from_utf8(data)
    THEN [err |-> "EINVAL", actors |-> acts]
    ELSE IF Len(path) >= 3 /\ path[1] = "actors"
    THEN IF path[2] \notin DOMAIN acts
         THEN [err |-> "ENOENT", actors |-> acts]
         ELSE IF path[3] = "state"
         THEN LET new_state == from_str_value(data) IN
              IF new_state.ok
              THEN [err |-> "", actors |-> [acts EXCEPT ![path[2]].state = new_state.value]]
              ELSE [err |-> "EINVAL", actors |-> acts]
         ELSE IF path[3] = "mailbox"
         THEN LET messages == from_str_messages(data) IN
              [err |-> "",
               actors |-> IF messages.ok
                          THEN [acts EXCEPT ![path[2]].mailbox = messages.value]
                          ELSE acts]
         ELSE IF path[3] = "script"
         THEN [err |-> "", actors |-> [acts EXCEPT ![path[2]].script = script_of(data)]]
         ELSE IF path[3] = "paused"
         THEN LET flag == parse_bool(data) IN
              IF flag.ok
              THEN [err |-> "", actors |-> [acts EXCEPT ![path[2]].paused = flag.value]]
              ELSE [err |-> "EINVAL", actors |-> acts]
         ELSE [err |-> "EROFS", actors |-> acts]
    ELSE [err |-> "EROFS", actors |-> acts]

\* The buffer of rwrite after the write of data at offset: a gap is filled
\* with zero bytes, data at the end is appended, data inside overwrites.
Zeros(n) == [i \in 1..n |-> Nul]

\* write_at that appends the data whatever the offset.
write_at_append(buffer, offset, data) == buffer \o data

write_at(buffer, offset, data) ==
    LET padded == IF offset > Len(buffer)
                  THEN buffer \o Zeros(offset - Len(buffer))
                  ELSE buffer
    IN IF offset = Len(padded)
       THEN padded \o data
       ELSE LET grown == IF offset + Len(data) > Len(padded)
                         THEN padded \o Zeros(offset + Len(data) - Len(padded))
                         ELSE padded
            IN [i \in 1..Len(grown) |->
                   IF i > offset /\ i <= offset + Len(data)
                   THEN data[i - offset]
                   ELSE grown[i]]

\* A filesystem request: it touches neither the static SYSTEM nor the Config,
\* and it is no command of the control loop.
Request == /\ UNCHANGED <<SYSTEM, config, spawn_queue, paused, spawned, sys_lock, ticks, locks, flight>>
           /\ log' = NoLog

\* rattach: the fid is the root directory; the QID path answered is the
\* literal 1.
rattach(fid) ==
    /\ fid \notin DOMAIN fids
    /\ fids' = [f \in DOMAIN fids \cup {fid} |->
                   IF f = fid THEN MyFId(Root, TRUE, <<>>) ELSE fids[f]]
    /\ last' = Served("attach", "RAttach", "")
    /\ out' = [NoOut EXCEPT !.qid = "0000000000000001"]
    /\ UNCHANGED actors
    /\ Request

\* rwalk to a new fid: the clone of the fid for no names; else the path the
\* loop ended with when a QID was pushed, and the starting path when none was.
rwalk(fid, newfid, wnames) ==
    /\ fid \in DOMAIN fids
    /\ newfid \notin DOMAIN fids
    /\ sys_lock = "free"
    /\ LET start == [path |-> fids[fid].path, is_dir |-> fids[fid].is_dir, wqids |-> <<>>]
           w == walk_loop(actors, start, wnames)
           new == IF wnames = <<>> \/ w.wqids = <<>>
                  THEN MyFId(start.path, start.is_dir, <<>>)
                  ELSE MyFId(w.path, w.is_dir, <<>>)
       IN /\ fids' = [f \in DOMAIN fids \cup {newfid} |->
                         IF f = newfid THEN new ELSE fids[f]]
          /\ out' = [NoOut EXCEPT !.wqids = w.wqids]
    /\ last' = Served("walk", "RWalk", "")
    /\ UNCHANGED actors
    /\ Request

\* rread of a file fid: the slice [offset, offset + count) of read_file.
rread(fid, offset, count) ==
    /\ fid \in DOMAIN fids
    /\ ~fids[fid].is_dir
    /\ sys_lock = "free"
    /\ LET content == read_file(actors, spawn_queue, fids[fid].path)
           end == IF offset + count < Len(content) THEN offset + count ELSE Len(content)
       IN out' = [NoOut EXCEPT !.data = IF offset < Len(content)
                                        THEN SubSeq(content, offset + 1, end)
                                        ELSE <<>>]
    /\ last' = Served("read", "RRead", "")
    /\ UNCHANGED <<actors, fids>>
    /\ Request

\* rgetattr: ENOENT when the path of the fid does not exist; else the QID
\* path is the hash of the path of the fid.
rgetattr(fid) ==
    /\ fid \in DOMAIN fids
    /\ sys_lock = "free"
    /\ IF ~get_path_info(actors, fids[fid].path).exists
       THEN /\ last' = Served("getattr", "Rlerror", "ENOENT")
            /\ out' = NoOut
       ELSE /\ last' = Served("getattr", "RGetAttr", "")
            /\ out' = [NoOut EXCEPT !.qid = path_to_qid(fids[fid].path)]
    /\ UNCHANGED <<actors, fids>>
    /\ Request

\* rlopen: the QID path is the hash of the path of the fid, whether or not
\* the path exists.
rlopen(fid) ==
    /\ fid \in DOMAIN fids
    /\ last' = Served("lopen", "RlOpen", "")
    /\ out' = [NoOut EXCEPT !.qid = path_to_qid(fids[fid].path)]
    /\ UNCHANGED <<actors, fids>>
    /\ Request

\* The ids in the order of String::cmp, and the keys of a table sorted by it.
IdOrder == <<"a", "b">>
sorted_keys(acts) == SelectSeq(IdOrder, LAMBDA id : id \in DOMAIN acts)

\* read_directory: the entries of a directory, as (name, is_dir) in the order
\* of the listing; no entry for a path that is no directory of the tree.
read_directory(acts, path) ==
    IF path = Root
    THEN <<[name |-> "actors", is_dir |-> TRUE], [name |-> "spawn_queue", is_dir |-> FALSE]>>
    ELSE IF path = <<"actors">>
    THEN LET keys == sorted_keys(acts) IN
         [i \in 1..Len(keys) |-> [name |-> keys[i], is_dir |-> TRUE]]
    ELSE IF Len(path) = 2 /\ path[1] = "actors" /\ path[2] \in DOMAIN acts
    THEN <<[name |-> "mailbox", is_dir |-> FALSE], [name |-> "script", is_dir |-> FALSE],
           [name |-> "state", is_dir |-> FALSE], [name |-> "paused", is_dir |-> FALSE]>>
    ELSE <<>>

\* DirEntry::size(): the QID (13 bytes), the offset (8), the type (1) and the
\* length prefix of the name (2), then the bytes of the name.
DirEntryFixed == 24
name_len(name) ==
    IF name \in Ids THEN 1
    ELSE IF name = "state" THEN 5
    ELSE IF name = "mailbox" THEN 7
    ELSE IF name = "spawn_queue" THEN 11
    ELSE 6
entry_size(name) == DirEntryFixed + name_len(name)

\* The loop of rreaddir from the entry of index idx (counted from 0): an
\* entry that does not fit in count ends the loop, after it is pushed when
\* it is the first one and count > 0.
RECURSIVE readdir_loop(_, _, _, _, _, _)
readdir_loop(path, entries, idx, count, current_size, dir_entries) ==
    IF idx >= Len(entries)
    THEN dir_entries
    ELSE LET e == entries[idx + 1]
             entry == [name |-> e.name, is_dir |-> e.is_dir, offset |-> idx + 1,
                       qid |-> path_to_qid(Append(path, e.name))]
         IN IF current_size + entry_size(e.name) > count
            THEN IF dir_entries = <<>> /\ count > 0
                 THEN <<entry>>
                 ELSE dir_entries
            ELSE readdir_loop(path, entries, idx + 1, count,
                              current_size + entry_size(e.name),
                              Append(dir_entries, entry))

\* rreaddir: ENOTDIR for a file fid; else the entries of read_directory from
\* the index `offset` on, as many as the loop takes.
rreaddir(fid, offset, count) ==
    /\ fid \in DOMAIN fids
    /\ sys_lock = "free"
    /\ IF ~fids[fid].is_dir
       THEN /\ last' = Served("readdir", "Rlerror", "ENOTDIR")
            /\ out' = NoOut
       ELSE /\ last' = Served("readdir", "RReadDir", "")
            /\ out' = [NoOut EXCEPT !.entries =
                          readdir_loop(fids[fid].path,
                                       read_directory(actors, fids[fid].path),
                                       offset, count, 0, <<>>)]
    /\ UNCHANGED <<actors, fids>>
    /\ Request

\* rwrite that also writes the buffer through to the file.
rwrite_through(fid, offset, data) ==
    /\ fid \in DOMAIN fids
    /\ IF fids[fid].is_dir
       THEN /\ UNCHANGED <<fids, actors>>
            /\ last' = Served("write", "Rlerror", "EISDIR")
       ELSE LET buffer == IF fids[fid].write_buffer = <<>>
                          THEN <<>>
                          ELSE fids[fid].write_buffer[1]
            IN /\ Len(write_at(buffer, offset, data)) <= MaxBuffer
               /\ fids' = [fids EXCEPT ![fid].write_buffer =
                                           <<write_at(buffer, offset, data)>>]
               /\ actors' = write_file(actors, fids[fid].path,
                                       write_at(buffer, offset, data)).actors
               /\ last' = Served("write", "RWrite", "")
    /\ out' = [NoOut EXCEPT !.count = IF fids[fid].is_dir THEN 0 ELSE Len(data)]
    /\ Request

\* rwrite: EISDIR for a directory fid; else the data goes into the fid's
\* write buffer, which is created when there is none, and the reply carries
\* the length of the data as its count.
rwrite(fid, offset, data) ==
    /\ fid \in DOMAIN fids
    /\ IF fids[fid].is_dir
       THEN /\ UNCHANGED fids
            /\ last' = Served("write", "Rlerror", "EISDIR")
       ELSE LET buffer == IF fids[fid].write_buffer = <<>>
                          THEN <<>>
                          ELSE fids[fid].write_buffer[1]
            IN /\ Len(write_at(buffer, offset, data)) <= MaxBuffer
               /\ fids' = [fids EXCEPT ![fid].write_buffer =
                                           <<write_at(buffer, offset, data)>>]
               /\ last' = Served("write", "RWrite", "")
    /\ out' = [NoOut EXCEPT !.count = IF fids[fid].is_dir THEN 0 ELSE Len(data)]
    /\ UNCHANGED actors
    /\ Request

\* The commit of a fid's buffer: write_buffer.take(), then write_file on the
\* fid's path under the System write lock, for which rfsync and rclunk wait
\* when there is a buffer.
commit(fid) ==
    IF fids[fid].write_buffer = <<>>
    THEN [err |-> "", actors |-> actors]
    ELSE write_file(actors, fids[fid].path, fids[fid].write_buffer[1])

\* rfsync that reads the buffer without taking it.
rfsync_keep(fid) ==
    /\ fid \in DOMAIN fids
    /\ fids[fid].write_buffer # <<>> => sys_lock = "free"
    /\ actors' = commit(fid).actors
    /\ UNCHANGED fids
    /\ last' = Served("fsync", IF commit(fid).err = "" THEN "RFSync" ELSE "Rlerror",
                      commit(fid).err)
    /\ out' = NoOut
    /\ Request

\* rfsync: the commit; an error of write_file is the reply.
rfsync(fid) ==
    /\ fid \in DOMAIN fids
    /\ fids[fid].write_buffer # <<>> => sys_lock = "free"
    /\ actors' = commit(fid).actors
    /\ fids' = [fids EXCEPT ![fid].write_buffer = <<>>]
    /\ last' = Served("fsync", IF commit(fid).err = "" THEN "RFSync" ELSE "Rlerror",
                      commit(fid).err)
    /\ out' = NoOut
    /\ Request

\* rclunk that drops the buffer without writing it.
rclunk_discard(fid) ==
    /\ fid \in DOMAIN fids
    /\ fids' = [f \in DOMAIN fids \ {fid} |-> fids[f]]
    /\ last' = Served("clunk", "RClunk", "")
    /\ out' = NoOut
    /\ UNCHANGED actors
    /\ Request

\* rclunk: the commit with the result of write_file dropped; the reply is
\* RClunk and the fid is gone.
rclunk(fid) ==
    /\ fid \in DOMAIN fids
    /\ fids[fid].write_buffer # <<>> => sys_lock = "free"
    /\ actors' = commit(fid).actors
    /\ fids' = [f \in DOMAIN fids \ {fid} |-> fids[f]]
    /\ last' = Served("clunk", "RClunk", "")
    /\ out' = NoOut
    /\ Request

---------------------------------------------------------------------------
\* The locks of the requests: every request of the overlay, every command
\* and every tick as the sequence of its awaits on tokio RwLocks.  A guard is
\* given at once when nobody waits and the holders allow it, else the task
\* queues; a release gives the lock to the head of the queue, and to the
\* readers behind it.

\* The tasks that serve filesystem requests, and all tasks that take locks.
RequestTasks == {"r1", "r2"}
LockTasks == TickTasks \cup RequestTasks

\* The RwLock of the System, the three RwLocks of the MyFId that the fid
\* table holds under a number, and those of the MyFId that the server makes
\* by Default for the new fid of the request that a task serves.
SysLock == <<"sys", "sys">>
LockParts == {"path", "is_dir", "write_buffer"}
FidOwner(fid) == IF fid = 1 THEN "fid1" ELSE "fid2"
fid_lock(fid, part) == <<FidOwner(fid), part>>
LockNames ==
    {SysLock} \cup {<<o, p>> : o \in {"fid1", "fid2"} \cup RequestTasks, p \in LockParts}

\* The new fid that rwalk is given: a MyFId of its own, which enters the
\* table when the walk has been answered.
newfid_lock(t, newfid, part) == <<t, part>>

FreeLock == [holders |-> {}, queue |-> <<>>]
IdleRequest == [op |-> "", fid |-> 0, newfid |-> 0, prog |-> <<>>, pc |-> 0]

\* One await of a request: the lock, the mode, and whether the guard lives
\* to the end of the request or only to the end of the statement.
Stage(lock, mode, keep) == [lock |-> lock, mode |-> mode, keep |-> keep]

\* rgetattr: the read guard of path is a local that lives to the end, and
\* sys.read() is awaited under it.
rgetattr_locks(fid) ==
    <<Stage(fid_lock(fid, "path"), "R", TRUE), Stage(SysLock, "R", TRUE)>>

\* rwalk on a new fid that is the MyFId the table holds under its number.
rwalk_locks_shared(t, fid, newfid) ==
    <<Stage(fid_lock(fid, "path"), "R", FALSE),
      Stage(fid_lock(fid, "is_dir"), "R", FALSE),
      Stage(SysLock, "R", TRUE),
      Stage(fid_lock(newfid, "path"), "W", FALSE),
      Stage(fid_lock(newfid, "is_dir"), "W", FALSE)>>

\* rwalk: path and is_dir of the fid are read in one statement each, then
\* sys.read() is held while path and is_dir of the new fid are written.
rwalk_locks(t, fid, newfid) ==
    <<Stage(fid_lock(fid, "path"), "R", FALSE),
      Stage(fid_lock(fid, "is_dir"), "R", FALSE),
      Stage(SysLock, "R", TRUE),
      Stage(newfid_lock(t, newfid, "path"), "W", FALSE),
      Stage(newfid_lock(t, newfid, "is_dir"), "W", FALSE)>>

\* rwrite: path and is_dir are read, and a file fid then holds the write
\* guard of write_buffer; the System lock is not taken.
rwrite_locks(fid, is_dir) ==
    <<Stage(fid_lock(fid, "path"), "R", FALSE),
      Stage(fid_lock(fid, "is_dir"), "R", FALSE)>>
    \o IF is_dir THEN <<>> ELSE <<Stage(fid_lock(fid, "write_buffer"), "W", TRUE)>>

\* rfsync and rclunk: the write guard of write_buffer is held to the end;
\* when there is a buffer the path is read and sys.write() is awaited.
commit_locks(fid, some) ==
    <<Stage(fid_lock(fid, "write_buffer"), "W", TRUE)>>
    \o IF some
       THEN <<Stage(fid_lock(fid, "path"), "R", FALSE), Stage(SysLock, "W", TRUE)>>
       ELSE <<>>

\* Command::Tick, the other commands on the System, and the timer task:
\* sys.write() alone.
tick_locks == <<Stage(SysLock, "W", TRUE)>>

\* Whether a guard of the mode can be given beside the guards held.
Compatible(holders, mode) ==
    IF mode = "R" THEN \A h \in holders : h[2] = "R" ELSE holders = {}

Holds(lk, l, t) == \E h \in lk[l].holders : h[1] = t
Waits(lk, l, t) == \E i \in DOMAIN lk[l].queue : lk[l].queue[i][1] = t

\* lock.read().await or lock.write().await: the guard, or a place at the end
\* of the queue.
acquire(lk, l, t, mode) ==
    IF lk[l].queue = <<>> /\ Compatible(lk[l].holders, mode)
    THEN [lk EXCEPT ![l].holders = @ \cup {<<t, mode>>}]
    ELSE [lk EXCEPT ![l].queue = Append(@, <<t, mode>>)]

\* The waiters at the head of the queue that can be given their guard.
RECURSIVE grant(_, _)
grant(lk, l) ==
    IF lk[l].queue # <<>> /\ Compatible(lk[l].holders, Head(lk[l].queue)[2])
    THEN grant([lk EXCEPT ![l] = [holders |-> @.holders \cup {Head(@.queue)},
                                  queue |-> Tail(@.queue)]], l)
    ELSE lk

\* The drop of a guard.
release(lk, l, t) ==
    grant([lk EXCEPT ![l].holders = {h \in @ : h[1] # t}], l)

\* The drop of every guard that a request still holds when it returns.
RECURSIVE release_all(_, _, _)
release_all(lk, t, stages) ==
    IF stages = <<>>
    THEN lk
    ELSE release_all(release(lk, Head(stages).lock, t), t, Tail(stages))

\* The task that holds the write guard of the System, or "free".
sys_writer(lk) ==
    IF \E h \in lk[SysLock].holders : h[2] = "W"
    THEN (CHOOSE h \in lk[SysLock].holders : h[2] = "W")[1]
    ELSE "free"

\* A task starts to serve a request: it reaches the first await.
arrive(t, op, fid, newfid, prog) ==
    /\ flight[t].pc = 0
    /\ flight' = [flight EXCEPT ![t] = [op |-> op, fid |-> fid, newfid |-> newfid,
                                        prog |-> prog, pc |-> 1]]
    /\ locks' = acquire(locks, prog[1].lock, t, prog[1].mode)
    /\ sys_lock' = sys_writer(locks')
    /\ UNCHANGED <<actors, spawn_queue, paused, last, log, SYSTEM, config, fids, out,
                   spawned, ticks>>

getattr_request(t, fid) == arrive(t, "getattr", fid, 0, rgetattr_locks(fid))
walk_request(t, fid, newfid) == arrive(t, "walk", fid, newfid, rwalk_locks(t, fid, newfid))
write_request(t, fid, is_dir) == arrive(t, "write", fid, 0, rwrite_locks(fid, is_dir))
fsync_request(t, fid, some) == arrive(t, "fsync", fid, 0, commit_locks(fid, some))
clunk_request(t, fid, some) == arrive(t, "clunk", fid, 0, commit_locks(fid, some))
tick_request(t) == arrive(t, "tick", 0, 0, tick_locks)

\* A task that was given the guard it awaited goes on: to the next await,
\* after the drop of a guard that lived for the statement, or to the return,
\* where every guard it holds is dropped.
advance(t) ==
    /\ flight[t].pc > 0
    /\ LET f == flight[t]
           cur == f.prog[f.pc]
       IN /\ Holds(locks, cur.lock, t)
          /\ IF f.pc < Len(f.prog)
             THEN LET nxt == f.prog[f.pc + 1]
                      dropped == IF cur.keep THEN locks ELSE release(locks, cur.lock, t)
                  IN /\ locks' = acquire(dropped, nxt.lock, t, nxt.mode)
                     /\ flight' = [flight EXCEPT ![t].pc = f.pc + 1]
             ELSE /\ locks' = release_all(locks, t, f.prog)
                  /\ flight' = [flight EXCEPT ![t] = IdleRequest]
    /\ sys_lock' = sys_writer(locks')
    /\ UNCHANGED <<actors, spawn_queue, paused, last, log, SYSTEM, config, fids, out,
                   spawned, ticks>>

---------------------------------------------------------------------------
\* Specifications.

\* The messages of Send commands.
Messages == {Message(f, t, p) : f \in Ids \cup {None}, t \in Ids, p \in Payloads}

KillLists == {<<i>> : i \in Ids} \cup {<<i, j>> : i, j \in Ids}

NoCommand == Served("", "", "")

\* System::new(), as the server builds it.
\* The rest of the process when the server starts: the static SYSTEM is
\* System::new(), the Config holds DEFAULT_TICK and no fid is attached.
InitProcess ==
    /\ SYSTEM = [spawn_queue |-> <<>>, actors |-> <<>>, paused |-> FALSE]
    /\ config = DEFAULT_TICK
    /\ fids = <<>>
    /\ out = NoOut
    /\ spawned = [i \in Ids |-> "no"]
    /\ sys_lock = "free"
    /\ ticks = [t \in TickTasks |-> IdleTick]
    /\ locks = [l \in LockNames |-> FreeLock]
    /\ flight = [t \in LockTasks |-> IdleRequest]

Init ==
    /\ actors = <<>>
    /\ spawn_queue = <<>>
    /\ paused = FALSE
    /\ last = NoCommand
    /\ log = NoLog
    /\ InitProcess

Next ==
    \/ \E script \in Scripts, id \in Ids : Spawn(script, id)
    \/ \E ids \in KillLists : Kill(ids)
    \/ \E id \in Ids \cup {None} : Pause(id)
    \/ \E id \in Ids \cup {None} : Unpause(id)
    \/ \E msg \in Messages : Send(msg)
    \/ TickNow
    \/ TimerTick

Spec == Init /\ [][Next]_vars

\* The command loop with Command::Rename, which main.rs serves and the
\* Command enum of common.rs does not declare.
NextRename ==
    \/ Next
    \/ \E old, new \in Ids : Rename(old, new)

SpecRename == Init /\ [][NextRename]_vars

\* System::tick applied to System values in general: the fields of System and
\* Actor are public, send queues and the spawn queue may hold entries, and a
\* script may have been replaced by a text that does not compile.
SeqsUpTo(S, n) == UNION {[1..m -> S] : m \in 0..n}

InitMailboxes(k) ==
    {<<>>, <<Message("a", k, Obj(1))>>,
     <<Message("a", k, Obj(1)), Message(None, k, Num(1))>>}

InitSendQueues(k) == SeqsUpTo({Message(k, t, Obj(1)) : t \in Ids}, MaxQueue)

InitActors(k) ==
    {[id |-> k, mailbox |-> m, send_queue |-> q, script |-> s,
      state |-> EmptyObject, paused |-> p] :
        m \in InitMailboxes(k), q \in InitSendQueues(k), s \in Scripts,
        p \in BOOLEAN}

InitTables ==
    UNION {{t \in [D -> UNION {InitActors(k) : k \in D}] : \A k \in D : t[k].id = k} :
              D \in SUBSET Ids}

InitSpawnQueues ==
    SeqsUpTo({Props("echo", "b"), Props("broken", "a")}, MaxSpawn)

InitSys ==
    /\ actors \in InitTables
    /\ spawn_queue \in InitSpawnQueues
    /\ paused \in BOOLEAN
    /\ last = NoCommand
    /\ log = NoLog
    /\ InitProcess

NextSys ==
    \/ TickNow
    \/ TimerTick

SpecSys == InitSys /\ [][NextSys]_vars

\* The command loop with the tick-rate commands and no Send: the Config
\* next to a System whose mailboxes stay empty.
TickValues == {50, 100, 150}

NextConfig ==
    \/ \E script \in Scripts, id \in Ids : Spawn(script, id)
    \/ \E ids \in KillLists : Kill(ids)
    \/ \E id \in Ids \cup {None} : Pause(id)
    \/ \E id \in Ids \cup {None} : Unpause(id)
    \/ \E ms \in TickValues : SetTick(ms)
    \/ ResetTick
    \/ TickNow
    \/ TimerTick

SpecConfig == Init /\ [][NextConfig]_vars

\* The command loop with actors whose handler calls the send host function.
NextHost ==
    \/ \E script \in HostScripts, id \in Ids : Spawn(script, id)
    \/ \E ids \in KillLists : Kill(ids)
    \/ \E msg \in Messages : Send(msg)
    \/ TickNow
    \/ TimerTick

SpecHost == Init /\ [][NextHost]_vars

\* The texts written through the filesystem.
ObjText == <<U("{"), U("n:"), U("1"), U("}")>>
NumText == <<U("1")>>
BadText == <<U("{")>>
ArrText == <<U("["), MsgText(Message("b", "a", Obj(1))), U("]")>>
OneText == <<MsgText(Message("b", "a", Obj(1)))>>
TrueText == <<U("true")>>

\* The fid numbers of the session: 1 is attached, 2 is walked to.
Fids == {1, 2}

\* The whole server: the command loop with Rename and List, ticks, and the
\* filesystem requests of one session on the state files.
ServerMessages == {Message("a", "b", Obj(1))}
ServerWalks == {<<"actors", i, "state">> : i \in Ids}
ServerData == {NumText}

NextServer ==
    \/ \E id \in Ids : Spawn("echo", id)
    \/ \E ids \in KillLists : Kill(ids)
    \/ \E id \in Ids \cup {None} : Pause(id)
    \/ \E id \in Ids \cup {None} : Unpause(id)
    \/ \E msg \in ServerMessages : Send(msg)
    \/ TickNow
    \/ \E old, new \in Ids : Rename(old, new)
    \/ List
    \/ rattach(1)
    \/ \E wnames \in ServerWalks : rwalk(1, 2, wnames)
    \/ \E data \in ServerData : rwrite(2, 0, data)
    \/ rfsync(2)
    \/ rclunk(2)

SpecServer == Init /\ [][NextServer]_vars

\* One filesystem session on the state and mailbox files, next to the
\* commands that build the actor it writes to and the ticks that run it; the
\* id "b" names no actor.
FsMessages == {Message("b", "a", Num(1))}
FsWalks == {<<"actors", i, f>> : i \in Ids, f \in {"state", "mailbox"}}
FsData == {ObjText, NumText, BadText, ArrText, OneText}

\* The offsets of the writes: the start of the file and the byte after it.
FsOffsets == {0, 1}

\* The count of a read request: more than the longest content.
ReadCount == 16

\* The buffer of a fid, empty when it has none.
Buffered(fid) ==
    IF fid \notin DOMAIN fids \/ fids[fid].write_buffer = <<>>
    THEN <<>>
    ELSE fids[fid].write_buffer[1]

NextFs ==
    \/ Spawn("echo", "a")
    \/ \E ids \in KillLists : Kill(ids)
    \/ \E msg \in FsMessages : Send(msg)
    \/ TickNow
    \/ rattach(1)
    \/ \E wnames \in FsWalks : rwalk(1, 2, wnames)
    \/ rread(2, 0, ReadCount)
    \/ \E data \in FsData, offset \in FsOffsets : rwrite(2, offset, data)
    \/ rfsync(2)
    \/ rclunk(2)

SpecFs == Init /\ [][NextFs]_vars

\* One filesystem session on the paths that take no write: /spawn_queue, the
\* directories, and the files of an actor that a Kill removes between the
\* write and its commit.  XffText is a byte string that is not UTF-8.
XffText == <<U("xff")>>
RejectWalks == {<<"spawn_queue">>, <<"actors">>, <<"actors", "a">>,
                <<"actors", "a", "state">>, <<"actors", "a", "script">>}
RejectData == {ObjText, XffText}

NextReject ==
    \/ Spawn("echo", "a")
    \/ Kill(<<"a">>)
    \/ rattach(1)
    \/ \E wnames \in RejectWalks : rwalk(1, 2, wnames)
    \/ \E data \in RejectData : rwrite(2, 0, data)
    \/ rfsync(2)
    \/ rclunk(2)

SpecReject == Init /\ [][NextReject]_vars

\* One filesystem session that lists the directories while actors are
\* spawned and killed; a count of 25 bytes is the size of one entry of
\* /actors.
DirWalks == {<<"actors">>, <<"actors", "a">>, <<"spawn_queue">>}
DirOffsets == {0, 1, 2}
DirCounts == {0, 10, 25, 60}

NextDir ==
    \/ \E id \in Ids : Spawn("echo", id)
    \/ \E id \in Ids : Kill(<<id>>)
    \/ rattach(1)
    \/ \E wnames \in DirWalks : rwalk(1, 2, wnames)
    \/ \E fid \in Fids, offset \in DirOffsets, count \in DirCounts :
          rreaddir(fid, offset, count)
    \/ rclunk(2)

SpecDir == Init /\ [][NextDir]_vars

\* One fid on /spawn_queue that takes writes of every offset up to the bound;
\* an fsync drops the buffer (the commit is refused) and a clunk the fid.
WriteData == {<<>>, <<U("1")>>, <<U("2"), U("3")>>}
WriteOffsets == 0..MaxBuffer

NextWrite ==
    \/ rattach(1)
    \/ rwalk(1, 2, <<"spawn_queue">>)
    \/ \E data \in WriteData, offset \in WriteOffsets : rwrite(2, offset, data)
    \/ rfsync(2)
    \/ rclunk(2)

SpecWrite == Init /\ [][NextWrite]_vars

\* Two fids on the files of one actor: fid 2 writes and commits, fid 3 reads,
\* while messages are sent and ticks run.
BufferFids == {1, 2, 3}
BufferWalks == {<<"actors", "a", "state">>, <<"actors", "a", "mailbox">>}
BufferData == {NumText, ArrText}

NextBuffer ==
    \/ Spawn("echo", "a")
    \/ \E msg \in FsMessages : Send(msg)
    \/ TickNow
    \/ rattach(1)
    \/ \E fid \in {2, 3}, wnames \in BufferWalks : rwalk(1, fid, wnames)
    \/ rread(3, 0, ReadCount)
    \/ \E data \in BufferData, offset \in FsOffsets : rwrite(2, offset, data)
    \/ rfsync(2)
    \/ \E fid \in {2, 3} : rclunk(fid)

SpecBuffer == Init /\ [][NextBuffer]_vars

\* A counting actor "a" next to an actor "b" whose handler fails on a scalar
\* payload, the messages sent to them and the ticks.
ChainMessages == {Message(None, "a", Obj(1)), Message(None, "b", Num(1))}

\* The messages an actor has counted and the ones it still holds.
Counted(acts, k) ==
    IF k \in DOMAIN acts THEN acts[k].state.n + Len(acts[k].mailbox) ELSE 0

\* Command::Send while the counting actor is below the bound.
SendCounted(msg) ==
    /\ Counted(actors, "a") < MaxCount
    /\ Send(msg)

NextChain ==
    \/ Spawn("counter", "a")
    \/ Spawn("latch", "b")
    \/ \E msg \in ChainMessages : SendCounted(msg)
    \/ TickNow
    \/ TimerTick

SpecChain == Init /\ [][NextChain]_vars

\* The tasks of the server with the tick taken step by step: the command
\* loop, the timer task and one filesystem session on a state file.
LockMessages == {Message("a", "b", Obj(1)), Message(None, "a", Num(1))}
LockWalks == {<<"actors", "a", "state">>}

NextLock ==
    \/ \E id \in Ids : Spawn("latch", id)
    \/ \E id \in Ids : Kill(<<id>>)
    \/ Pause("a")
    \/ Unpause("a")
    \/ \E msg \in LockMessages : Send(msg)
    \/ Rename("a", "b")
    \/ \E t \in TickTasks : tick_lock(t)
    \/ \E t \in TickTasks : tick_spawn_loop(t)
    \/ \E t \in TickTasks : tick_visit(t)
    \/ \E t \in TickTasks : tick_route(t)
    \/ rattach(1)
    \/ \E wnames \in LockWalks : rwalk(1, 2, wnames)
    \/ \E data \in ServerData : rwrite(2, 0, data)
    \/ rfsync(2)
    \/ rclunk(2)

SpecLock == Init /\ [][NextLock]_vars

\* One filesystem session that never sends fsync: every buffer it commits is
\* committed by the clunk of its fid.
NextClunk ==
    \/ Spawn("echo", "a")
    \/ \E ids \in KillLists : Kill(ids)
    \/ \E msg \in FsMessages : Send(msg)
    \/ TickNow
    \/ rattach(1)
    \/ \E wnames \in FsWalks : rwalk(1, 2, wnames)
    \/ rread(2, 0, ReadCount)
    \/ \E data \in FsData, offset \in FsOffsets : rwrite(2, offset, data)
    \/ rclunk(2)

SpecClunk == Init /\ [][NextClunk]_vars

\* The QIDs of the replies: the walks from the root (".." stays
\* at the root), and getattr, lopen and readdir on either fid.
QidWalks == {<<"..">>, <<"actors">>, <<"actors", "a">>, <<"actors", "a", "state">>,
             <<"spawn_queue">>}
NextQid ==
    \/ \E id \in Ids : Spawn("echo", id)
    \/ \E id \in Ids : Kill(<<id>>)
    \/ rattach(1)
    \/ \E wnames \in QidWalks : rwalk(1, 2, wnames)
    \/ \E fid \in Fids : rgetattr(fid)
    \/ \E fid \in Fids : rlopen(fid)
    \/ \E fid \in Fids : rreaddir(fid, 0, 60)
    \/ rclunk(2)

SpecQid == Init /\ [][NextQid]_vars

\* Walks of one name from any fid to any free fid, the walks from a file of an
\* actor included; FileDepth is the number of names of the path of such a
\* file, and no walk starts below it.
TreeFids == {1, 2, 3}
TreeNames == {"actors", "a", "state", "x", ".."}
FileDepth == 3

walk_one(fid, newfid, wname) ==
    /\ fid \in DOMAIN fids
    /\ Len(fids[fid].path) <= FileDepth
    /\ rwalk(fid, newfid, <<wname>>)

NextTree ==
    \/ Spawn("echo", "a")
    \/ Kill(<<"a">>)
    \/ rattach(1)
    \/ \E fid, newfid \in TreeFids, wname \in TreeNames : walk_one(fid, newfid, wname)
    \/ \E fid \in {2, 3} : rclunk(fid)

SpecTree == Init /\ [][NextTree]_vars

\* Commits and ticks on one actor: the handler keeps the n of the message as
\* the state, the Send commands carry n = 1 and the mailbox text written
\* through the filesystem carries n = 2.
OnceText == <<U("["), MsgText(Message(None, "a", Obj(2))), U("]")>>
OnceMessages == {Message(None, "a", Obj(1))}
OnceWalks == {<<"actors", "a", f>> : f \in {"mailbox", "state"}}
OnceData == {OnceText, NumText}

NextOnce ==
    \/ Spawn("latch", "a")
    \/ \E msg \in OnceMessages : Send(msg)
    \/ TickNow
    \/ rattach(1)
    \/ \E wnames \in OnceWalks : rwalk(1, 2, wnames)
    \/ \E data \in OnceData : rwrite(2, 0, data)
    \/ rfsync(2)
    \/ rclunk(2)

SpecOnce == Init /\ [][NextOnce]_vars

\* The tasks of the server on their locks: the timer task and a command on
\* sys.write(), and two filesystem requests at a time on the fids 1 and 2,
\* with any new fid for a walk.  The runtime polls every task that was
\* given the guard it awaits.
NextRequests ==
    \/ \E t \in TickTasks : tick_request(t)
    \/ \E t \in RequestTasks, fid \in Fids : getattr_request(t, fid)
    \/ \E t \in RequestTasks, fid \in Fids, newfid \in Fids : walk_request(t, fid, newfid)
    \/ \E t \in RequestTasks, fid \in Fids, is_dir \in BOOLEAN : write_request(t, fid, is_dir)
    \/ \E t \in RequestTasks, fid \in Fids, some \in BOOLEAN : fsync_request(t, fid, some)
    \/ \E t \in RequestTasks, fid \in Fids, some \in BOOLEAN : clunk_request(t, fid, some)
    \/ \E t \in LockTasks : advance(t)

SpecRequests == Init /\ [][NextRequests]_vars

FairRequests == \A t \in LockTasks : WF_vars(advance(t))

SpecRequestsFair == SpecRequests /\ FairRequests

\* Delivery beside a failing actor: a answers every message, the handler of
\* b fails on the scalar it is sent; nobody pauses or kills.  The timer task
\* loops forever, so a tick of the timer always comes.
DeliveryMessages ==
    {Message(None, "a", Obj(1)), Message(None, "a", Obj(2)),
     Message(None, "b", Num(1)), Message(None, "b", Obj(1))}

NextDelivery ==
    \/ Spawn("echo", "a")
    \/ Spawn("latch", "b")
    \/ \E msg \in DeliveryMessages : Send(msg)
    \/ TickNow
    \/ TimerTick

SpecDelivery == Init /\ [][NextDelivery]_vars

SpecDeliveryFair == SpecDelivery /\ WF_vars(TimerTick)

---------------------------------------------------------------------------
\* Properties.

\* The step is an execution of System::tick (Command::Tick or the timer).
TickStep == last'.op \in {"tick", "timer"}

IsPrefix(s, t) == Len(s) <= Len(t) /\ SubSeq(t, 1, Len(s)) = s

\* The handler invocations that the last tick made on the actor under key k.
Invocations(l, k) == {i \in DOMAIN l.invoked : l.invoked[i].key = k}

\* The messages of a routed list addressed to k, in order.
RoutedTo(l, k) == SelectSeq(l.routed, LAMBDA m : m.to = k)

\* C1: in one execution of tick (timer or tick_now) every actor's handler is
\* invoked at most once and at most one message leaves its mailbox, whatever
\* the depth of the mailbox.
C1_OncePerTick ==
    [][TickStep =>
        \A k \in DOMAIN actors :
            /\ k \in DOMAIN actors'
            /\ Cardinality(Invocations(log', k)) <= 1
            /\ \/ IsPrefix(actors[k].mailbox, actors'[k].mailbox)
               \/ /\ actors[k].mailbox # <<>>
                  /\ IsPrefix(Tail(actors[k].mailbox), actors'[k].mailbox)]_vars

\* A tick handled one message of an actor whose mailbox held two.
C1_Witness ==
    /\ last.op \in {"tick", "timer"}
    /\ log.routed = <<>>
    /\ \E k \in DOMAIN actors :
          /\ Cardinality(Invocations(log, k)) = 1
          /\ Len(actors[k].mailbox) = 1

\* C2: after a Send to an existing, non-paused actor whose mailbox was empty,
\* in a system that is not paused, the next tick_now invokes the handler of
\* that actor exactly once, with the payload that was sent, whatever the
\* other actors of the table do in that tick.
C2_SendThenTick ==
    [][(last.op = "send" /\ last'.op = "tick" /\ ~paused) =>
        \A k \in DOMAIN actors :
            (~actors[k].paused /\ Len(actors[k].mailbox) = 1) =>
                /\ Cardinality(Invocations(log', k)) = 1
                /\ \A i \in Invocations(log', k) :
                      log'.invoked[i].message.payload = actors[k].mailbox[1].payload]_vars

\* C3: no tick removes a message from the mailbox of a paused actor, invokes
\* its handler or changes its state; its mailbox only grows, by the messages
\* routed to it, and is unchanged when none is.
C3_PausedNotDrained ==
    [][TickStep =>
        \A k \in DOMAIN actors :
            actors[k].paused =>
                /\ k \in DOMAIN actors'
                /\ Invocations(log', k) = {}
                /\ actors'[k].state = actors[k].state
                /\ actors'[k].paused
                /\ actors'[k].mailbox = actors[k].mailbox \o RoutedTo(log', k)]_vars

\* A tick routed a reply into the mailbox of a paused actor that held a message.
C3_Witness ==
    /\ last.op \in {"tick", "timer"}
    /\ \E k \in DOMAIN actors :
          /\ actors[k].paused
          /\ RoutedTo(log, k) # <<>>
          /\ Len(actors[k].mailbox) > Len(RoutedTo(log, k))
          /\ actors[k].state # EmptyObject

\* C4: when the system-wide paused flag is set, a tick returns Ok and leaves
\* the actor table, every mailbox, send_queue and state, and the spawn_queue
\* unchanged: no spawn, no handler, no routing.
C4_SystemPaused ==
    [][(TickStep /\ paused) =>
        /\ actors' = actors
        /\ spawn_queue' = spawn_queue
        /\ paused'
        /\ log'.err = ""
        /\ log'.invoked = <<>>
        /\ log'.routed = <<>>
        /\ (last'.op = "tick" => last'.resp = "Done")]_vars

\* A tick_now was served by a paused system that has a spawn request, a
\* queued send and a pending message of an actor that is not paused.
C4_Witness ==
    /\ last.op = "tick"
    /\ paused
    /\ spawn_queue # <<>>
    /\ \E k \in DOMAIN actors :
          /\ ~actors[k].paused
          /\ actors[k].mailbox # <<>>
          /\ actors[k].send_queue # <<>>

\* C5: a message appended to a mailbox by the routing step of a tick (a queued
\* send or a synthesized reply) is not passed to a handler during that tick:
\* every message handled was the head of its actor's mailbox when the tick
\* began, and every routed message whose recipient exists is still pending in
\* the recipient's mailbox when the tick returns.
C5_RoutedNextTick ==
    [][TickStep =>
        /\ \A i \in DOMAIN log'.invoked :
              LET e == log'.invoked[i] IN
              /\ e.key \in DOMAIN actors
              /\ actors[e.key].mailbox # <<>>
              /\ e.message = Head(actors[e.key].mailbox)
        /\ \A k \in DOMAIN actors' :
              LET new == actors'[k].mailbox
                  got == RoutedTo(log', k)
              IN /\ Len(got) <= Len(new)
                 /\ SubSeq(new, Len(new) - Len(got) + 1, Len(new)) = got]_vars

\* A tick routed a message to an actor that is not paused, whose mailbox held
\* nothing else and whose handler the tick did not invoke.
C5_Witness ==
    /\ last.op \in {"tick", "timer"}
    /\ \E k \in DOMAIN actors :
          /\ ~actors[k].paused
          /\ Invocations(log, k) = {}
          /\ \E i, j \in DOMAIN log.routed :
                /\ log.routed[i].from = k /\ log.routed[i].to # k
                /\ log.routed[j].from # k /\ log.routed[j].to = k
          /\ actors[k].mailbox = RoutedTo(log, k)

\* The message m is an element of the sequence s.
InSeq(m, s) == \E i \in DOMAIN s : s[i] = m

C7_DeliveryToExisting ==
    [][/\ \A msg \in Messages :
            (last'.op = "send" /\ Send(msg)) =>
               /\ last'.resp = "Done"
               /\ DOMAIN actors' = DOMAIN actors
               /\ \A k \in DOMAIN actors :
                     actors'[k] = IF k = msg.to
                                  THEN [actors[k] EXCEPT !.mailbox = Append(@, msg)]
                                  ELSE actors[k]
       /\ (TickStep /\ log'.err = "") =>
               /\ DOMAIN actors' = DOMAIN actors
               /\ \A k \in DOMAIN actors :
                     actors'[k].mailbox =
                        (IF Invocations(log', k) = {}
                         THEN actors[k].mailbox
                         ELSE Tail(actors[k].mailbox)) \o RoutedTo(log', k)]_vars

\* A tick appended a reply behind a different message that was pending in
\* the recipient's mailbox.
C7_Witness ==
    /\ last.op \in {"tick", "timer"}
    /\ log.err = ""
    /\ \E j \in DOMAIN log.routed :
          /\ log.routed[j].to \in DOMAIN actors
          /\ Len(actors[log.routed[j].to].mailbox) = 2
          /\ actors[log.routed[j].to].mailbox[2] = log.routed[j]
          /\ actors[log.routed[j].to].mailbox[1] # log.routed[j]

\* C8: when compiling or running handle fails for an actor during a tick, the
\* actor stays in the table with its state, script, send_queue and paused
\* flag unchanged, and the message that was passed to the handler is consumed:
\* it was the head of the mailbox and the mailbox is left without it.
C8_FailedHandler ==
    [][TickStep =>
        \A i \in DOMAIN log'.invoked :
            LET e == log'.invoked[i] IN
            e.err \in {"compile", "runtime"} =>
                /\ e.key \in DOMAIN actors /\ e.key \in DOMAIN actors'
                /\ actors[e.key].mailbox # <<>>
                /\ e.message = Head(actors[e.key].mailbox)
                /\ actors'[e.key] =
                      [actors[e.key] EXCEPT !.mailbox = Tail(@),
                                            !.send_queue =
                                                IF @ = <<>> THEN @ ELSE Tail(@)]]_vars

\* A tick ran a handler that failed on an actor whose state an earlier
\* message had changed and whose mailbox held a second message.
C8_Witness ==
    /\ last.op \in {"tick", "timer"}
    /\ \E i \in DOMAIN log.invoked :
          /\ log.invoked[i].err \in {"compile", "runtime"}
          /\ log.invoked[i].key \in DOMAIN actors
          /\ actors[log.invoked[i].key].state # EmptyObject
          /\ actors[log.invoked[i].key].mailbox # <<>>

\* C9: a handler failure in one actor does not stop the tick: the tick
\* returns Ok (tick_now answers Done), every actor that is not paused has its
\* queued send popped and the head of its mailbox handled in that tick, and
\* every message collected for routing is delivered to its recipient.
C9_TickSurvivesFailure ==
    [][(TickStep /\ ~paused) =>
        /\ log'.err = ""
        /\ (last'.op = "tick" => last'.resp = "Done")
        /\ \A k \in DOMAIN actors :
              ~actors[k].paused =>
                  /\ actors[k].mailbox # <<>> =>
                        Cardinality(Invocations(log', k)) = 1
                  /\ actors[k].send_queue # <<>> =>
                        /\ actors'[k].send_queue = Tail(actors[k].send_queue)
                        /\ InSeq(Head(actors[k].send_queue), log'.routed)
        /\ \A i \in DOMAIN log'.routed :
              log'.routed[i].to \in DOMAIN actors' =>
                  InSeq(log'.routed[i], actors'[log'.routed[i].to].mailbox)]_vars

\* C10: a spawn whose requested id is in the actor table fails with
\* IdAlreadyExists, answered Failed, and leaves the table unchanged.
C10_SpawnExistingId ==
    [][\A script \in Scripts, id \in Ids :
          (Spawn(script, id) /\ id \in DOMAIN actors) =>
              /\ last'.resp = "Failed"
              /\ last'.err = "IdAlreadyExists"
              /\ actors' = actors]_vars

\* C11 as stated: every List response contains every id for which a Spawn
\* answered Spawned{id} and that no Kill has named since, whatever other
\* operations (ticks, sends, pauses, filesystem writes, renames) were served.
C11_SpawnThenList ==
    last.op = "list" =>
        \A i \in Ids : spawned[i] \in {"spawned", "renamed"} => i \in out.actors

\* C11 amended: every List response contains every id for which a Spawn
\* answered Spawned{id} and that neither a Kill has named nor a Rename has
\* moved to another id since.
C11_SpawnThenListUnlessRenamed ==
    last.op = "list" =>
        \A i \in Ids : spawned[i] = "spawned" => i \in out.actors

\* A List response that contains a spawned id whose state a committed
\* filesystem write has replaced, served while that actor is paused and after
\* the other id was renamed away.
C11_Witness ==
    /\ last.op = "list"
    /\ \E i, j \in Ids :
          /\ spawned[i] = "spawned" /\ i \in out.actors
          /\ actors[i].state = Num(1) /\ actors[i].paused
          /\ spawned[j] = "renamed" /\ j \notin out.actors

\* C12: a Kill answers Done, removes exactly the listed ids that are present
\* and leaves every other actor unchanged; the records go with their mailbox
\* and send_queue, and a record spawned later under a killed id starts with
\* both empty; List answers the keys of the table, so none of the killed ids;
\* a Send addressed to an id that is not in the table, and a tick, change no
\* mailbox of such an id and create no actor.
C12_KillRemovesListed ==
    [][/\ \A ids \in KillLists :
            (last'.op = "kill" /\ Kill(ids)) =>
               /\ last'.resp = "Done"
               /\ DOMAIN actors' = DOMAIN actors \ Range(ids)
               /\ \A k \in DOMAIN actors' : actors'[k] = actors[k]
               /\ list_keys(actors') \cap Range(ids) = {}
       /\ last'.op = "list" => out'.actors = DOMAIN actors
       /\ last'.op = "spawn" =>
               \A k \in DOMAIN actors' \ DOMAIN actors :
                   actors'[k].mailbox = <<>> /\ actors'[k].send_queue = <<>>
       /\ \A msg \in ServerMessages :
            (last'.op = "send" /\ Send(msg) /\ msg.to \notin DOMAIN actors) =>
               actors' = actors /\ last'.resp = "Done"
       /\ last'.op = "tick" => DOMAIN actors' = DOMAIN actors]_vars

\* A Kill removed an actor to whose state file a fid holds a buffered write,
\* and left the other actor with its pending message.
C12_Witness ==
    /\ last.op = "kill"
    /\ DOMAIN actors = {"b"}
    /\ actors["b"].mailbox # <<>>
    /\ 2 \in DOMAIN fids
    /\ fids[2].path = <<"actors", "a", "state">>
    /\ fids[2].write_buffer # <<>>

\* C13: a Pause or Unpause whose id names no actor changes neither the
\* system-wide paused flag nor any actor.
C13_PauseAbsentNoop ==
    [][\A id \in Ids :
          ((Pause(id) \/ Unpause(id)) /\ id \notin DOMAIN actors) =>
              paused' = paused /\ actors' = actors]_vars

\* C14: after a Pause with some id (or none) has been served, serving the same
\* Pause again changes nothing: the state after two consecutive Pause
\* commands is the state after one, and the actor, if the id names one, is
\* paused.
C14_PauseIdempotent ==
    [][\A id \in Ids \cup {None} :
          (last'.op = "pause" /\ Pause(id)) =>
              /\ pause_effect(actors', paused', id, TRUE) =
                     [actors |-> actors', paused |-> paused']
              /\ id \in DOMAIN actors => actors'[id].paused]_vars

\* A Pause was served for an actor with a pending message while the other
\* actor is not paused.
C14_Witness ==
    /\ last.op = "pause"
    /\ ~paused
    /\ \E i, j \in DOMAIN actors :
          /\ actors[i].paused /\ actors[i].mailbox # <<>>
          /\ ~actors[j].paused

\* C15: the tick period is at least 100 ms after every step: a SetTick below
\* 100 is answered Failed and leaves the period unchanged, a SetTick of 100
\* or more is answered Done and becomes the period, ResetTick restores 2000.
C15_TickPeriodAtLeast100 ==
    [][/\ \A ms \in TickValues :
            SetTick(ms) =>
               IF ms < 100
               THEN last'.resp = "Failed" /\ config' = config
               ELSE last'.resp = "Done" /\ config' = ms
       /\ ResetTick => config' = 2000
       /\ config' >= 100]_vars

\* C16: in a tick that returns Ok, when the handler of the actor X returns a
\* pair (state, reply) for a message with from = A, whatever JSON value the
\* reply is, the message {from: X, to: A, payload: reply} is routed and is in
\* A's mailbox when the tick returns if A exists, and X's state is the
\* returned state.
C16_RouteRoundTrip ==
    [][(TickStep /\ log'.err = "") =>
        \A i \in DOMAIN log'.invoked :
            LET e == log'.invoked[i]
                ret == call_handle(actors[e.key].script, e.state, e.message.payload)
                reply == Message(e.key, e.message.from, ret.snd)
            IN (ret.tag = "pair" /\ e.message.from # None) =>
                  /\ InSeq(reply, log'.routed)
                  /\ e.message.from \in DOMAIN actors' =>
                        InSeq(reply, actors'[e.message.from].mailbox)
                  /\ actors'[e.key].state = ret.fst]_vars

\* C17: when the handler of the actor X calls send(to_id, value) during a
\* tick, the message {from: X, to: to_id, payload: value} is in the
\* send_queue of X in the ticked System when the tick returns, and no
\* mailbox received it in that tick.
C17_SendEnqueues ==
    [][TickStep =>
        \A i \in DOMAIN log'.invoked :
            LET e == log'.invoked[i] IN
            \A j \in DOMAIN e.sends :
                LET msg == Message(e.key, e.sends[j].to, e.sends[j].value) IN
                /\ e.key \in DOMAIN actors'
                /\ InSeq(msg, actors'[e.key].send_queue)
                /\ ~InSeq(msg, log'.routed)]_vars

\* The fid holds a buffer and its path is the file `name` of a live actor.
Buffers(fid, name) ==
    /\ fid \in DOMAIN fids
    /\ fids[fid].write_buffer # <<>>
    /\ Len(fids[fid].path) = 3
    /\ fids[fid].path[1] = "actors"
    /\ fids[fid].path[2] \in DOMAIN actors
    /\ fids[fid].path[3] = name

\* C18: when an fsync or a clunk commits a buffer of valid JSON to the state
\* file of an actor, the actor's state is the value of that JSON and the file
\* then reads as a text of the same value (fsync answers RFSync); a read of a
\* state file returns a text whose value is the actor's state; and a tick
\* passes to the handler the state the actor had when the tick began.
C18_StateWriteRoundTrip ==
    [][/\ \A fid \in Fids :
            LET path == fids[fid].path
                written == from_str_value(Buffered(fid))
            IN (/\ last'.op \in {"fsync", "clunk"}
                /\ Buffers(fid, "state")
                /\ rfsync(fid) \/ rclunk(fid)
                /\ written.ok) =>
                   /\ last'.op = "fsync" => last'.resp = "RFSync"
                   /\ actors'[path[2]].state = written.value
                   /\ from_str_value(read_file(actors', spawn_queue', path)) = written
       /\ \A fid \in Fids :
            (/\ last'.op = "read"
             /\ rread(fid, 0, ReadCount)
             /\ Len(fids[fid].path) = 3
             /\ fids[fid].path[2] \in DOMAIN actors
             /\ fids[fid].path[3] = "state") =>
                from_str_value(out'.data) =
                    [ok |-> TRUE, value |-> actors[fids[fid].path[2]].state]
       /\ last'.op = "tick" =>
            \A i \in DOMAIN log'.invoked :
                log'.invoked[i].state = actors[log'.invoked[i].key].state]_vars

\* A tick passed to the handler of an actor the number that two writes to
\* its state file had spelled and an fsync or clunk had committed.
C18_Witness ==
    /\ last.op = "tick"
    /\ \E i \in DOMAIN log.invoked :
          /\ log.invoked[i].state = Num(11)
          /\ actors[log.invoked[i].key].state = Num(11)

\* C19: an fsync that commits a buffer that is not valid JSON to the state
\* file of an actor is answered with the error EINVAL and leaves the actor's
\* state and every other field of the System unchanged.
C19_StateWriteAtomic ==
    [][\A fid \in Fids :
          (/\ last'.op = "fsync"
           /\ Buffers(fid, "state")
           /\ rfsync(fid)
           /\ ~from_str_value(Buffered(fid)).ok) =>
              /\ last'.resp = "Rlerror"
              /\ last'.err = "EINVAL"
              /\ UNCHANGED <<actors, spawn_queue, paused>>]_vars

\* An fsync of the state file was answered EINVAL for an actor that holds a
\* state written earlier and a pending message.
C19_Witness ==
    /\ last.op = "fsync"
    /\ last.err = "EINVAL"
    /\ 2 \in DOMAIN fids
    /\ fids[2].path = <<"actors", "a", "state">>
    /\ "a" \in DOMAIN actors
    /\ actors["a"].state = Obj(1)
    /\ actors["a"].mailbox # <<>>

\* C20: an fsync that commits a buffer to the mailbox file of an actor
\* replaces the mailbox with the parsed array when the buffer is a JSON array
\* of Messages, and is answered EINVAL, the mailbox unchanged, when it is not.
C20_MailboxWrite ==
    [][\A fid \in Fids :
          (/\ last'.op = "fsync"
           /\ Buffers(fid, "mailbox")
           /\ rfsync(fid)) =>
              LET messages == from_str_messages(Buffered(fid)) IN
              IF messages.ok
              THEN /\ last'.resp = "RFSync"
                   /\ actors'[fids[fid].path[2]].mailbox = messages.value
              ELSE /\ last'.resp = "Rlerror"
                   /\ last'.err = "EINVAL"
                   /\ actors' = actors]_vars

\* The fid holds a buffer and its path is a file under /actors/{id}/ whose
\* id names no actor.
BuffersUnknown(fid) ==
    /\ fid \in DOMAIN fids
    /\ fids[fid].write_buffer # <<>>
    /\ Len(fids[fid].path) >= 3
    /\ fids[fid].path[1] = "actors"
    /\ fids[fid].path[2] \notin DOMAIN actors

\* C21: an fsync that commits a buffer to /spawn_queue is answered EROFS, an
\* fsync that commits a buffer to a file of an id that names no actor is
\* answered ENOENT, and a write to a directory fid is answered EISDIR; each
\* of them leaves the System unchanged.
C21_RejectedWrites ==
    [][\A fid \in Fids :
          /\ (/\ last'.op = "fsync"
              /\ rfsync(fid)
              /\ Buffered(fid) # <<>>
              /\ fids[fid].path = <<"spawn_queue">>) =>
                 /\ last'.err = "EROFS"
                 /\ UNCHANGED <<actors, spawn_queue, paused>>
          /\ (/\ last'.op = "fsync"
              /\ rfsync(fid)
              /\ BuffersUnknown(fid)) =>
                 /\ last'.err = "ENOENT"
                 /\ UNCHANGED <<actors, spawn_queue, paused>>
          /\ \A data \in RejectData :
               (/\ last'.op = "write"
                /\ rwrite(fid, 0, data)
                /\ fids[fid].is_dir) =>
                   /\ last'.err = "EISDIR"
                   /\ UNCHANGED <<actors, spawn_queue, paused, fids>>]_vars

\* C22: the clunk of a fid that holds a buffer leaves the System that an
\* fsync of that fid would leave: the table that write_file makes of the
\* fid's path and buffer (the parsed state or mailbox when the buffer parses,
\* the old table when it does not), the spawn_queue and the paused flag
\* unchanged; the reply is RClunk and the fid is gone.
C22_ClunkCommits ==
    [][\A fid \in Fids :
          (/\ last'.op = "clunk"
           /\ rclunk(fid)
           /\ Buffered(fid) # <<>>) =>
              /\ actors' = write_file(actors, fids[fid].path, Buffered(fid)).actors
              /\ Buffers(fid, "state") /\ from_str_value(Buffered(fid)).ok =>
                    actors'[fids[fid].path[2]].state = from_str_value(Buffered(fid)).value
              /\ Buffers(fid, "mailbox") /\ from_str_messages(Buffered(fid)).ok =>
                    actors'[fids[fid].path[2]].mailbox = from_str_messages(Buffered(fid)).value
              /\ UNCHANGED <<spawn_queue, paused>>
              /\ last'.resp = "RClunk"
              /\ fid \notin DOMAIN fids']_vars

\* A clunk committed the number that two writes had spelled to the state
\* file of an actor, with no fsync in the session.
C22_Witness ==
    /\ last.op = "clunk"
    /\ 2 \notin DOMAIN fids
    /\ "a" \in DOMAIN actors
    /\ actors["a"].state = Num(11)

\* C23: when a Kill has just been served while a fid holds a buffer for a
\* file of an actor that is no longer in the table, the commit of the buffer,
\* by fsync or by clunk, is answered with the error ENOENT, the buffer is gone
\* and the System is unchanged.
C23_KilledBeforeCommit ==
    [][\A fid \in Fids :
          (/\ last.op = "kill"
           /\ last'.op \in {"fsync", "clunk"}
           /\ rfsync(fid) \/ rclunk(fid)
           /\ BuffersUnknown(fid)) =>
              /\ last'.resp = "Rlerror"
              /\ last'.err = "ENOENT"
              /\ Buffered(fid)' = <<>>
              /\ UNCHANGED <<actors, spawn_queue, paused>>]_vars

\* The number of leading names of a walk (without "..") from a path that
\* name existing nodes.
ResolvedCount(acts, path, wnames) ==
    CHOOSE k \in 0..Len(wnames) :
        /\ \A j \in 1..k : get_path_info(acts, path \o SubSeq(wnames, 1, j)).exists
        /\ k = Len(wnames) \/ ~get_path_info(acts, path \o SubSeq(wnames, 1, k + 1)).exists

\* C24: a walk in which some name does not exist answers the QIDs of the
\* names before it, and its new fid has the path and the directory flag of
\* the fid the walk started from.
C24_FailedWalkStaysAtStart ==
    [][\A wnames \in FsWalks :
          LET k == ResolvedCount(actors, fids[1].path, wnames) IN
          (/\ last'.op = "walk"
           /\ rwalk(1, 2, wnames)
           /\ k < Len(wnames)) =>
              /\ out'.wqids = [j \in 1..k |->
                                   path_to_qid(fids[1].path \o SubSeq(wnames, 1, j))]
              /\ fids'[2].path = fids[1].path
              /\ fids'[2].is_dir = fids[1].is_dir]_vars

\* C25: while a task is inside System::tick (from the moment it has the
\* write lock to the return of tick) it holds the lock, no other task is
\* inside tick or enters it, and every step that is not a step of that tick
\* (a command, a filesystem request) leaves the System unchanged; handlers
\* run only in the steps of the one tick in progress.
C25_TicksAtomic ==
    [][\A t \in TickTasks :
          ticks[t].pc # "idle" =>
             /\ sys_lock = t
             /\ \A u \in TickTasks \ {t} : ticks[u].pc = "idle" /\ ticks'[u].pc = "idle"
             /\ ticks'[t] = ticks[t] => UNCHANGED <<actors, spawn_queue, paused>>]_vars

\* The timer's tick has run the handler of one actor and has another actor
\* to visit, while a fid holds a buffer to commit and a message is pending.
C25_Witness ==
    /\ ticks["timer"].pc = "loop"
    /\ Len(ticks["timer"].invoked) = 1
    /\ ticks["timer"].order # <<>>
    /\ Buffered(2) # <<>>
    /\ \E k \in DOMAIN actors : actors[k].mailbox # <<>>

\* C26: a tick of a system that is not paused handles exactly one message of
\* every non-paused actor that holds messages: the head of its mailbox, passed
\* to the handler with the state the actor had (the init result or the state
\* the last successful invocation returned); the rest of the mailbox remains,
\* and a counting handler leaves n one higher.
C26_StateChaining ==
    [][(TickStep /\ ~paused) =>
        \A k \in DOMAIN actors :
            (~actors[k].paused /\ actors[k].mailbox # <<>>) =>
                /\ Cardinality(Invocations(log', k)) = 1
                /\ \A i \in Invocations(log', k) :
                      /\ log'.invoked[i].message = Head(actors[k].mailbox)
                      /\ log'.invoked[i].state = actors[k].state
                /\ actors'[k].mailbox = Tail(actors[k].mailbox) \o RoutedTo(log', k)
                /\ actors[k].script = "counter" =>
                      actors'[k].state = Obj(actors[k].state.n + 1)]_vars

C28_BufferedUntilCommit ==
    [][/\ \A fid \in BufferFids, data \in BufferData, offset \in FsOffsets :
            (last'.op = "write" /\ rwrite(fid, offset, data)) =>
                /\ UNCHANGED <<actors, spawn_queue, paused>>
                /\ DOMAIN fids' = DOMAIN fids
                /\ \A g \in DOMAIN fids \ {fid} : fids'[g] = fids[g]
                /\ fids'[fid].path = fids[fid].path
                /\ fids'[fid].is_dir = fids[fid].is_dir
       /\ \A fid \in BufferFids :
            (last'.op = "read" /\ rread(fid, 0, ReadCount)) =>
                out'.data = read_file(actors, spawn_queue, fids[fid].path)
       /\ TickStep =>
            \A i \in DOMAIN log'.invoked :
                LET e == log'.invoked[i] IN
                /\ e.state = actors[e.key].state
                /\ e.message = Head(actors[e.key].mailbox)
       /\ \A fid \in BufferFids :
            (/\ last'.op \in {"fsync", "clunk"}
             /\ rfsync(fid) \/ rclunk(fid)
             /\ Buffered(fid) # <<>>) =>
                actors' = write_file(actors, fids[fid].path, Buffered(fid)).actors]_vars

\* A read through fid 3 answered the state that the actor still has while fid
\* 2 holds a buffer with another value for the same file.
C28_Witness ==
    /\ last.op = "read"
    /\ "a" \in DOMAIN actors
    /\ 2 \in DOMAIN fids
    /\ 3 \in DOMAIN fids
    /\ fids[2].path = <<"actors", "a", "state">>
    /\ fids[3].path = <<"actors", "a", "state">>
    /\ from_str_value(Buffered(2)) = [ok |-> TRUE, value |-> Num(1)]
    /\ actors["a"].state = EmptyObject
    /\ out.data = to_string_pretty(EmptyObject)

\* C29: an rwrite of data at offset on a file fid whose buffer had length L
\* leaves a buffer of length max(L, offset + |data|) that holds the data at
\* [offset, offset + |data|), the old bytes below min(L, offset) and zero
\* bytes at [L, offset); the reply count is |data|.
C29_WriteAtOffset ==
    [][\A fid \in Fids, data \in WriteData, offset \in WriteOffsets :
          (last'.resp = "RWrite" /\ rwrite(fid, offset, data)) =>
              LET old == Buffered(fid)
                  new == Buffered(fid)'
                  L == Len(old)
                  n == Len(data)
              IN /\ fids'[fid].write_buffer # <<>>
                 /\ Len(new) = IF L > offset + n THEN L ELSE offset + n
                 /\ \A i \in 1..n : new[offset + i] = data[i]
                 /\ \A i \in 1..(IF L < offset THEN L ELSE offset) : new[i] = old[i]
                 /\ \A i \in (L + 1)..offset : new[i] = Nul
                 /\ out'.count = n]_vars

\* A write of one byte at offset 3 on a buffer of one byte filled the gap
\* with two zero bytes.
C29_Witness ==
    /\ last.op = "write"
    /\ out.count = 1
    /\ Buffered(2) = <<U("1"), Nul, Nul, U("1")>>

\* The encoded size of a sequence of directory entries.
RECURSIVE EncodedSize(_)
EncodedSize(es) ==
    IF es = <<>> THEN 0 ELSE entry_size(Head(es).name) + EncodedSize(Tail(es))

\* C30: a readdir of /actors at an offset answers the ids of the table in
\* ascending order from the one whose index is the offset, each entry with
\* the index of the entry after it as its offset, and the encoded size of the
\* entries answered is at most the count of the request.
C30_ReaddirActors ==
    [][\A fid \in Fids, offset \in DirOffsets, count \in DirCounts :
          (/\ last'.op = "readdir"
           /\ rreaddir(fid, offset, count)
           /\ fids[fid].path = <<"actors">>) =>
              LET es == out'.entries
                  keys == sorted_keys(actors)
              IN /\ last'.resp = "RReadDir"
                 /\ \A i \in DOMAIN es :
                       /\ offset + i <= Len(keys)
                       /\ es[i].name = keys[offset + i]
                       /\ es[i].offset = offset + i
                 /\ \A i, j \in DOMAIN es :
                       i < j => \E x, y \in DOMAIN IdOrder :
                                   x < y /\ IdOrder[x] = es[i].name /\ IdOrder[y] = es[j].name
                 /\ EncodedSize(es) <= count]_vars

\* Every fid of the table is on the path p.
AllFidsOn(fs, p) == \A f \in DOMAIN fs : fs[f].path = p

\* The QID paths that a reply reports for the root, when every fid is on the
\* root: the QID of attach, getattr and lopen, and the QID of a walk of one
\* name.
RootQids(l, o) ==
    IF l.op \in {"attach", "getattr", "lopen"} /\ l.resp # "Rlerror"
    THEN {o.qid}
    ELSE IF l.op = "walk" /\ Len(o.wqids) = 1
    THEN {o.wqids[1]}
    ELSE {}

\* C31: the QID path of a virtual path is the same in every operation that
\* reports it; in particular two successive replies that report the QID of
\* the root "/" (attach, walk, getattr, lopen) report the same QID path.
C31_SameQidPath ==
    [][(AllFidsOn(fids, Root) /\ AllFidsOn(fids', Root)) =>
          \A q \in RootQids(last, out), r \in RootQids(last', out') : q = r]_vars

\* C32: the mailbox is first in, first out: in every step that is no commit
\* of the filesystem, the handler of an actor is invoked at most once, on the
\* head of its mailbox, what stays of the mailbox keeps its order and what is
\* appended (by Send and by routing) goes behind it.
C32_MailboxFifo ==
    [][\A k \in DOMAIN actors \cap DOMAIN actors' :
          LET inv == Invocations(log', k) IN
          /\ Cardinality(inv) <= 1
          /\ inv = {} => IsPrefix(actors[k].mailbox, actors'[k].mailbox)
          /\ \A i \in inv :
                /\ actors[k].mailbox # <<>>
                /\ log'.invoked[i].message = Head(actors[k].mailbox)
                /\ IsPrefix(Tail(actors[k].mailbox), actors'[k].mailbox)]_vars

\* A tick handled the older of two different messages of a mailbox and left
\* the younger one.
C32_Witness ==
    /\ last.op \in {"tick", "timer"}
    /\ log.routed = <<>>
    /\ \E k \in DOMAIN actors :
          /\ actors[k].mailbox # <<>>
          /\ \E i \in Invocations(log, k) :
                log.invoked[i].message # actors[k].mailbox[1]

\* C33: the spawn procedure checks the id before it evaluates the script: a
\* spawn whose requested id is in the actor table does not execute
\* init(script), and its result is IdAlreadyExists whatever the script is.
C33_IdCheckedBeforeInit ==
    [][\A script \in Scripts, id \in Ids :
          (Spawn(script, id) /\ id \in DOMAIN actors) =>
              /\ ~spawn_actor(actors, script, id).evaluated
              /\ last'.err = "IdAlreadyExists"]_vars

\* C34: Rename{old, new} answers Failed and changes nothing when new is an
\* actor id; otherwise, when old is an actor id, the actor is under new and
\* no longer under old, with its state, mailbox, send_queue, script and
\* paused flag, every other entry is as it was and the number of actors is
\* the same; when old is no actor id nothing changes.
C34_Rename ==
    [][\A old, new \in Ids :
          Rename(old, new) =>
              /\ spawn_queue' = spawn_queue /\ paused' = paused
              /\ IF new \in DOMAIN actors
                 THEN last'.resp = "Failed" /\ actors' = actors
                 ELSE IF old \in DOMAIN actors
                 THEN /\ new \in DOMAIN actors' /\ old \notin DOMAIN actors'
                      /\ actors'[new].state = actors[old].state
                      /\ actors'[new].mailbox = actors[old].mailbox
                      /\ actors'[new].send_queue = actors[old].send_queue
                      /\ actors'[new].script = actors[old].script
                      /\ actors'[new].paused = actors[old].paused
                      /\ \A k \in DOMAIN actors \ {old} :
                            k \in DOMAIN actors' /\ actors'[k] = actors[k]
                      /\ Cardinality(DOMAIN actors') = Cardinality(DOMAIN actors)
                 ELSE actors' = actors]_vars

\* A Rename has moved a paused actor with a message in its mailbox to
\* another key.
C34_Witness ==
    /\ last.op = "rename" /\ last.resp = "Done"
    /\ \E k \in DOMAIN actors :
          /\ actors[k].id # k
          /\ actors[k].mailbox # <<>>
          /\ actors[k].paused

\* The path is a node of the tree: /, /spawn_queue, /actors, /actors/{id} for
\* a live id, or one of the four files of a live actor.
IsNode(acts, path) ==
    \/ path \in {Root, <<"spawn_queue">>, <<"actors">>}
    \/ /\ Len(path) \in {2, 3}
       /\ path[1] = "actors"
       /\ path[2] \in DOMAIN acts
       /\ Len(path) = 3 => path[3] \in ActorFiles

\* C35: a walk resolves a name only when the resulting path is a node of the
\* tree: a walk of a name other than ".." from a file fid answers no QID, and
\* the new fid of a walk that started on a node is on a node.
C35_WalkStaysInTree ==
    [][\A fid, newfid \in TreeFids, wname \in TreeNames :
          (walk_one(fid, newfid, wname) /\ IsNode(actors, fids[fid].path)) =>
              /\ (~fids[fid].is_dir /\ wname # "..") => out'.wqids = <<>>
              /\ IsNode(actors, fids'[newfid].path)]_vars

\* C36: a buffered write is applied at most once: an fsync, successful or
\* failed, leaves the fid without a buffer, no request but rwrite gives the
\* fid a buffer, and a clunk of a fid without a buffer changes nothing in the
\* System; so a clunk after an fsync with no rwrite between them applies
\* nothing, whatever ticks and commands were served after the fsync.
C36_AppliedOnce ==
    [][/\ last'.op = "fsync" => fids'[2].write_buffer = <<>>
       /\ (/\ last'.op # "write"
           /\ 2 \in DOMAIN fids /\ 2 \in DOMAIN fids'
           /\ fids[2].write_buffer = <<>>) => fids'[2].write_buffer = <<>>
       /\ (last'.op = "clunk" /\ fids[2].write_buffer = <<>>) =>
              /\ actors' = actors
              /\ spawn_queue' = spawn_queue
              /\ paused' = paused]_vars

\* A clunk has left alone an actor that a tick changed after a commit of its
\* mailbox file: the state is the n of the committed message, and the
\* mailbox is not the committed text again.
C36_Witness ==
    /\ last.op = "clunk"
    /\ 2 \notin DOMAIN fids
    /\ "a" \in DOMAIN actors
    /\ actors["a"].state = Obj(2)
    /\ actors["a"].mailbox = <<>>

\* C37: in every reachable state each entry of the actor table maps its key
\* to an actor record whose id field is that key.
C37_IdIsKey == \A k \in DOMAIN actors : actors[k].id = k

\* C38: in every reachable state every message in the mailbox of the actor
\* listed under the key k has to = k.
C38_MailboxAddressedToKey ==
    \A k \in DOMAIN actors :
        \A i \in DOMAIN actors[k].mailbox : actors[k].mailbox[i].to = k

\* C39: no deadlock on the System lock and the path, is_dir and write_buffer
\* locks of the fids: whatever requests, commands and ticks are in flight,
\* every task that has begun to take locks returns and drops them all.
C39_NoDeadlock ==
    \A t \in LockTasks : (flight[t].pc > 0) ~> (flight[t].pc = 0)

\* A walk holds the read guard of the System, a tick waits for the write
\* guard, and behind the tick waits a getattr that holds the read guard of
\* the path of the fid that the walk names as its new fid.
C39_Witness ==
    \E t, u \in RequestTasks, w \in TickTasks :
        /\ flight[t].op = "walk" /\ Holds(locks, SysLock, t)
        /\ Waits(locks, SysLock, w)
        /\ flight[u].op = "getattr" /\ flight[u].fid = flight[t].newfid
        /\ Holds(locks, fid_lock(flight[u].fid, "path"), u)
        /\ Waits(locks, SysLock, u)

\* C40: eventual delivery: while ticks keep being executed and nothing is
\* paused or killed, a message in the mailbox of an actor is eventually
\* passed to its handler, also when the handler of another actor fails on
\* every message it receives and keeps receiving messages.
C40_EventualDelivery ==
    ("a" \in DOMAIN actors /\ actors["a"].mailbox # <<>>)
        ~> (last.op \in {"tick", "timer"} /\ Invocations(log, "a") # {})

====
